---------------------------- MODULE Spec2Model ----------------------------
(***************************************************************************)
(* A model of the ClearCare backend (koushikvasa/clearcare):               *)
(*   - agent/critique.py : the score / rewrite loop run_critique_loop      *)
(*   - agent/graph.py    : the LangGraph pipeline behind run_agent         *)
(*                                                                         *)
(* Python values are modelled as follows.                                  *)
(*   dict        a function whose DOMAIN is the set of keys present; a     *)
(*               missing key is a key outside the DOMAIN, and d.get(k, v)  *)
(*               is Get(d, k, v)                                           *)
(*   list        a sequence                                                *)
(*   None / x    Optional values are the sequences << >> and << x >>       *)
(*   str         (where the program looks inside it) a sequence of         *)
(*               one-character strings; opaque texts are plain strings     *)
(*   object      run_critique_loop holds references to answers: an answer  *)
(*               is an index into the sequence heap                        *)
(* Oracle scores are carried in thousandths: 796 is the float 0.796.       *)
(***************************************************************************)
EXTENDS Integers, Sequences, FiniteSets, TLC

VARIABLES
    \* ---- run_critique_loop (agent/critique.py) ----
    heap,            \* the answer dicts that exist, by reference
    arg_answer,      \* the dict passed in as `answer`, as it was at the call
    current_answer,  \* reference
    best_answer,     \* reference
    best_score,
    score_history,
    scores,          \* what score_answer returned last
    iteration,
    cpc,             \* where run_critique_loop is: score, rewrite, attach, done
    candidates,      \* the reference scored at each iteration, in order
    score_calls,     \* calls of critique_llm.invoke made by score_answer
    rewrite_calls,   \* calls of critique_llm.invoke made by rewrite_answer
    \* ---- run_agent (agent/graph.py) ----
    state,           \* the AgentState of the run
    ppc,             \* the node to run next, END, or returned
    trace,           \* the nodes that have run, in order
    result,          \* what run_agent returned
    dir_queries,     \* the specialties asked of the provider directory
    \* ---- one call of a function of the program on its own ----
    call,            \* the function called and its arguments
    ret,             \* what it returned
    \* ---- the sessions table (agent/memory.py) ----
    sessions,        \* the row stored for each session_id that has one
    last_save,       \* the last call of save_session: arguments and result
    saving,          \* calls of save_session under way: position and locals
    \* ---- two requests served at the same time ----
    objs,            \* the dicts that exist, by reference
    runs             \* each request's position and the references it holds

cvars == << heap, arg_answer, current_answer, best_answer, best_score,
            score_history, scores, iteration, cpc, candidates,
            score_calls, rewrite_calls >>

pvars == << state, ppc, trace, result, dir_queries >>

fvars == << call, ret >>

mvars == << sessions, last_save, saving >>

kvars == << objs, runs >>

vars == << cvars, pvars, fvars, mvars, kvars >>

\* What each part of the model leaves alone.
besidesCritique == << pvars, fvars, mvars, kvars >>

besidesPipeline == << cvars, fvars, mvars, kvars >>

besidesCalls == << cvars, pvars, mvars, kvars >>

besidesMemory == << cvars, pvars, fvars, kvars >>

besidesRuns == << cvars, pvars, fvars, mvars >>

-----------------------------------------------------------------------------
(* Python helpers *)

None == << >>

Some(x) == << x >>

\* dict.get(k, default)
Get(d, k, default) == IF k \in DOMAIN d THEN d[k] ELSE default

\* d[k] = v for every k of the dict `upd`, on a copy of d
Update(d, upd) ==
    [k \in (DOMAIN d) \cup (DOMAIN upd) |-> IF k \in DOMAIN upd THEN upd[k] ELSE d[k]]

\* round(n / d) for integers n and d > 0: Python 3 rounds a tie to the even
\* neighbour
PyRound(n, d) ==
    LET q == n \div d
        r == n % d
    IN  IF 2 * r < d THEN q
        ELSE IF 2 * r > d THEN q + 1
        ELSE IF q % 2 = 0 THEN q ELSE q + 1

\* run_critique_loop has not been called.
CritiqueIdle ==
    /\ heap = << >>
    /\ arg_answer = << >>
    /\ current_answer = 0
    /\ best_answer = 0
    /\ best_score = 0
    /\ score_history = << >>
    /\ scores = None
    /\ iteration = 0
    /\ cpc = "idle"
    /\ candidates = << >>
    /\ score_calls = 0
    /\ rewrite_calls = 0

\* No function is called on its own.
NoCall == call = None /\ ret = None

\* The sessions table is not used.
NoSessions == sessions = << >> /\ last_save = None /\ saving = << >>

\* No request is being served.
NoRuns == objs = << >> /\ runs = << >>

\* run_agent has not been called.
PipelineIdle ==
    /\ state = << >>
    /\ ppc = "idle"
    /\ trace = << >>
    /\ result = None
    /\ dir_queries = << >>

-----------------------------------------------------------------------------
(* agent/critique.py *)

MAX_ITERATIONS == 3

SCORE_THRESHOLD == 80

\* The number of different texts the rewrite oracle can produce.
MaxProse == 2

\* The text fields of an answer (headline, spoken_summary, next_step, ...) are
\* one opaque value: 0 is the text of the answer passed in.
ProseTexts == 1..MaxProse

StructuredFields == {"hospitals", "plan_details", "alternatives", "used_defaults"}

\* The defaults rewrite_answer reads the structured fields with.
StructuredDefault(f) ==
    CASE f = "hospitals"     -> << >>
      [] f = "plan_details"  -> << >>
      [] f = "alternatives"  -> ""
      [] f = "used_defaults" -> FALSE

\* Answers run_agent hands to the loop: a full answer of the extract-plan
\* branch, one of the use-defaults branch, and the run-level error answer,
\* which has neither plan_details nor alternatives.
AnswersIn ==
    { [prose |-> 0, hospitals |-> << "Mercy Hospital" >>,
       plan_details |-> [plan_name |-> "Humana Gold Plus HMO", is_default |-> FALSE],
       alternatives |-> "alternatives text", used_defaults |-> FALSE],
      [prose |-> 0, hospitals |-> << >>,
       plan_details |-> [plan_name |-> "Original Medicare (Part A/B)", is_default |-> TRUE],
       alternatives |-> "alternatives text", used_defaults |-> TRUE],
      [prose |-> 0, hospitals |-> << >>, used_defaults |-> FALSE] }

\* ---- what the scoring oracle answers ----
\* A dimension is missing from the JSON (None) or a float, in thousandths;
\* values below 0.0 and above 1.0 are floats like any other.
RawA == { None, Some(-100), Some(0), Some(796), Some(1100) }

RawB == { None, Some(-100), Some(794) }

\* The composite the oracle states itself, under either of its two key names.
OracleComposite == { [key |-> "composite_score", value |-> 950],
                     [key |-> "composite", value |-> 10] }

Dim(name, raw) == IF raw = None THEN << >> ELSE [k \in {name} |-> raw[1]]

\* The JSON object of one scoring response.
ScoreJson(a, b, c) ==
    Update(Update(Update(Update(Dim("completeness", a), Dim("accuracy", b)),
                         Dim("clarity", a)), Dim("safety", b)),
           [k \in {c.key} |-> c.value])

ScoreJsons == { ScoreJson(a, b, c) : a \in RawA, b \in RawB, c \in OracleComposite }

\* ---- the text of an oracle response ----
\* A text is a sequence of lines, a line a sequence of tokens; a token is a
\* code fence (``` or ```json), the text of one JSON value, or other words.
FenceTok(tag) == [fence |-> TRUE, tag |-> tag]

JsonTok(value) == [fence |-> FALSE, json |-> value]

\* Words that are no JSON.
WordsTok == [fence |-> FALSE]

\* A response of plain words.
PlainText == << << WordsTok >> >>

\* How an oracle wraps a JSON value: bare, or between fence lines.
Fences == { "none", "block", "block-json" }

Wrap(style, value) ==
    CASE style = "none"       -> << << JsonTok(value) >> >>
      [] style = "block"      -> << << FenceTok("") >>, << JsonTok(value) >>,
                                    << FenceTok("") >> >>
      [] style = "block-json" -> << << FenceTok("json") >>, << JsonTok(value) >>,
                                    << FenceTok("") >> >>

\* str.strip() on lines: empty lines at both ends go
RECURSIVE StripLines(_)
StripLines(text) ==
    IF text = << >> THEN text
    ELSE IF Head(text) = << >> THEN StripLines(Tail(text))
    ELSE IF text[Len(text)] = << >> THEN StripLines(SubSeq(text, 1, Len(text) - 1))
    ELSE text

\* text.startswith("```")
StartsWithFence(text) == text # << >> /\ text[1][1].fence

\* text.endswith("```"): the last token is a fence with nothing after it
EndsWithFence(text) ==
    /\ text # << >>
    /\ LET last == text[Len(text)] IN last[Len(last)].fence /\ last[Len(last)].tag = ""

\* text.split("\n", 1)[-1]: what follows the first line break, or all of a
\* one-line text
AfterFirstLine(text) == IF Len(text) >= 2 THEN Tail(text) ELSE text

\* text.rsplit("```", 1)[0] of a text that ends with a fence
BeforeLastFence(text) ==
    LET n == Len(text)
        last == text[n]
    IN  [text EXCEPT ![n] = SubSeq(last, 1, Len(last) - 1)]

\* json.loads: Some(value) when the text is one JSON value, None when it raises
JsonLoads(text) ==
    LET t == StripLines(text)
    IN  IF Len(t) = 1 /\ Len(t[1]) = 1 /\ "json" \in DOMAIN t[1][1]
        THEN Some(t[1][1].json) ELSE None

\* parse_llm_json: the opening fence line and the closing fence are removed
\* before json.loads
parse_llm_json(raw) ==
    LET text  == StripLines(raw)
        text1 == IF StartsWithFence(text) THEN AfterFirstLine(text) ELSE text
        text2 == IF EndsWithFence(text1) THEN StripLines(BeforeLastFence(text1)) ELSE text1
    IN  JsonLoads(text2)

\* round(x * 100) of a float given in thousandths
Rescale(t) == PyRound(t, 10)

Composite(completeness, accuracy, clarity, safety) ==
    PyRound(completeness + accuracy + clarity + safety, 4)

NeedsRewrite_le(composite) == composite <= SCORE_THRESHOLD

NeedsRewrite(composite) == composite < SCORE_THRESHOLD

\* A mutant of ScoreAnswerOk: the composite the oracle states is used when
\* there is one.
ScoreAnswerOk_oracle(parsed) ==
    LET s0 == IF "composite_score" \in DOMAIN parsed /\ "composite" \notin DOMAIN parsed
              THEN Update(parsed, [k \in {"composite"} |-> parsed["composite_score"]])
              ELSE parsed
        completeness == Rescale(Get(s0, "completeness", 700))
        accuracy     == Rescale(Get(s0, "accuracy", 700))
        clarity      == Rescale(Get(s0, "clarity", 700))
        safety       == Rescale(Get(s0, "safety", 700))
        composite    == IF "composite" \in DOMAIN s0 THEN Rescale(s0["composite"])
                        ELSE Composite(completeness, accuracy, clarity, safety)
    IN  [completeness |-> completeness, accuracy |-> accuracy, clarity |-> clarity,
         safety |-> safety, composite |-> composite,
         needs_rewrite |-> NeedsRewrite(composite)]

\* score_answer, the try block after the oracle answered with a JSON object
ScoreAnswerOk(parsed) ==
    LET s0 == IF "composite_score" \in DOMAIN parsed /\ "composite" \notin DOMAIN parsed
              THEN Update(parsed, [k \in {"composite"} |-> parsed["composite_score"]])
              ELSE parsed
        completeness == Rescale(Get(s0, "completeness", 700))
        accuracy     == Rescale(Get(s0, "accuracy", 700))
        clarity      == Rescale(Get(s0, "clarity", 700))
        safety       == Rescale(Get(s0, "safety", 700))
        composite    == Composite(completeness, accuracy, clarity, safety)
    IN  [completeness |-> completeness, accuracy |-> accuracy, clarity |-> clarity,
         safety |-> safety, composite |-> composite,
         needs_rewrite |-> NeedsRewrite(composite)]

ScoreAnswerFallback_stops ==
    [completeness |-> 70, accuracy |-> 70, clarity |-> 70, safety |-> 70,
     composite |-> 70, needs_rewrite |-> FALSE]

\* score_answer, the except block: the call raised, the text is no JSON, the
\* JSON is no object, or a dimension is no number
ScoreAnswerFallback ==
    [completeness |-> 70, accuracy |-> 70, clarity |-> 70, safety |-> 70,
     composite |-> 70, needs_rewrite |-> TRUE]

\* ---- what the rewrite oracle answers ----
\* A JSON object with new text fields; it may also carry structured fields of
\* its own making.
RewriteJsons ==
    { [prose |-> p] : p \in ProseTexts } \cup
    { [prose |-> p, hospitals |-> << "Invented Clinic" >>,
       plan_details |-> [plan_name |-> "Invented Plan", is_default |-> FALSE],
       alternatives |-> "invented", used_defaults |-> u] :
          p \in ProseTexts, u \in BOOLEAN }

\* A mutant of RewriteAnswer: the provider list of the rewritten JSON is kept.
RewriteAnswer_keepHospitals(answer, rewritten) ==
    Update(rewritten,
           [f \in (StructuredFields \ {"hospitals"}) \cup
                  (IF "hospitals" \in DOMAIN rewritten THEN {} ELSE {"hospitals"}) |->
                Get(answer, f, StructuredDefault(f))])

\* rewrite_answer, the try block after the oracle answered with a JSON object
RewriteAnswer(answer, rewritten) ==
    Update(rewritten,
           [f \in StructuredFields |-> Get(answer, f, StructuredDefault(f))])

IsBetter_always(composite, best) == TRUE

\* the test of "if scores['composite'] > best_score"
IsBetter(composite, best) == composite > best

LastIteration_never(it) == FALSE

\* the test of "if iteration == MAX_ITERATIONS"
LastIteration(it) == it = MAX_ITERATIONS

CritiqueInit ==
    /\ arg_answer \in AnswersIn
    /\ heap = << arg_answer >>
    /\ current_answer = 1
    /\ best_answer = 1
    /\ best_score = 0
    /\ score_history = << >>
    /\ scores = None
    /\ iteration = 1
    /\ cpc = "score"
    /\ candidates = << >>
    /\ score_calls = 0
    /\ rewrite_calls = 0
    /\ PipelineIdle
    /\ NoCall
    /\ NoSessions
    /\ NoRuns

\* One pass of the loop body from the scoring result s to the break tests.
LoopBody(s) ==
    /\ scores' = Some(s)
    /\ score_history' = Append(score_history,
           [iteration |-> iteration, completeness |-> s.completeness,
            accuracy |-> s.accuracy, clarity |-> s.clarity, safety |-> s.safety,
            composite |-> s.composite])
    /\ IF IsBetter(s.composite, best_score)
       THEN best_score' = s.composite /\ best_answer' = current_answer
       ELSE UNCHANGED << best_score, best_answer >>
    /\ cpc' = IF ~s.needs_rewrite THEN "attach"
              ELSE IF LastIteration(iteration) THEN "attach"
              ELSE "rewrite"
    /\ candidates' = Append(candidates, current_answer)
    /\ score_calls' = score_calls + 1
    /\ UNCHANGED << heap, arg_answer, current_answer, iteration, rewrite_calls >>

\* The scoring oracle answers with a JSON object, fenced or not.
ScoreOk ==
    /\ cpc = "score"
    /\ \E j \in ScoreJsons, f \in Fences :
          LET parsed == parse_llm_json(Wrap(f, j))
          IN  parsed # None /\ LoopBody(ScoreAnswerOk(parsed[1]))
    /\ UNCHANGED besidesCritique

\* The scoring call raises or its answer cannot be used.
ScoreFail ==
    /\ cpc = "score"
    /\ LoopBody(ScoreAnswerFallback)
    /\ UNCHANGED besidesCritique

\* The end of the loop body: the for statement takes the next iteration, or
\* is exhausted.
ForNext ==
    IF iteration < MAX_ITERATIONS
    THEN iteration' = iteration + 1 /\ cpc' = "score"
    ELSE iteration' = iteration /\ cpc' = "attach"

\* The rewrite oracle answers with a JSON object: a new dict is the candidate.
RewriteOk ==
    /\ cpc = "rewrite"
    /\ \E j \in RewriteJsons, f \in Fences :
          LET parsed == parse_llm_json(Wrap(f, j))
          IN  /\ parsed # None
              /\ heap' = Append(heap, RewriteAnswer(heap[current_answer], parsed[1]))
    /\ current_answer' = Len(heap) + 1
    /\ rewrite_calls' = rewrite_calls + 1
    /\ ForNext
    /\ UNCHANGED << arg_answer, best_answer, best_score, score_history, scores,
                    candidates, score_calls, besidesCritique >>

RewriteAnswerFailed_first(answer) == 1

\* rewrite_answer, the except block: the dict it was given
RewriteAnswerFailed(answer) == answer

\* The rewrite call raises or its answer cannot be used.
RewriteFail ==
    /\ cpc = "rewrite"
    /\ current_answer' = RewriteAnswerFailed(current_answer)
    /\ rewrite_calls' = rewrite_calls + 1
    /\ ForNext
    /\ UNCHANGED << heap, arg_answer, best_answer, best_score,
                    score_history, scores, candidates, score_calls, besidesCritique >>

\* After the loop: the history, the best score and the count are stored in
\* the best answer's dict, which is returned.
Attach ==
    /\ cpc = "attach"
    /\ heap' = [heap EXCEPT ![best_answer] =
                   Update(@, [score_history |-> score_history,
                              final_score   |-> best_score,
                              iterations    |-> Len(score_history)])]
    /\ cpc' = "done"
    /\ UNCHANGED << arg_answer, current_answer, best_answer, best_score,
                    score_history, scores, iteration, candidates, score_calls,
                    rewrite_calls, besidesCritique >>

CritiqueNext == ScoreOk \/ ScoreFail \/ RewriteOk \/ RewriteFail \/ Attach

SpecCritique == CritiqueInit /\ [][CritiqueNext]_vars

\* The dict run_critique_loop returns.
Returned == heap[best_answer]

-----------------------------------------------------------------------------
(* Python str, on sequences of one-character strings *)

UpperChars == << "A", "B", "C", "D", "E", "F", "G", "H", "I", "J", "K", "L", "M",
                 "N", "O", "P", "Q", "R", "S", "T", "U", "V", "W", "X", "Y", "Z" >>

LowerChars == << "a", "b", "c", "d", "e", "f", "g", "h", "i", "j", "k", "l", "m",
                 "n", "o", "p", "q", "r", "s", "t", "u", "v", "w", "x", "y", "z" >>

Whitespace == { " ", "\t", "\n" }

LowerChar(c) ==
    IF \E i \in DOMAIN UpperChars : UpperChars[i] = c
    THEN LowerChars[CHOOSE i \in DOMAIN UpperChars : UpperChars[i] = c]
    ELSE c

\* s.lower()
Lower(s) == [i \in DOMAIN s |-> LowerChar(s[i])]

\* s.strip()
RECURSIVE Strip(_)
Strip(s) ==
    IF s = << >> THEN s
    ELSE IF Head(s) \in Whitespace THEN Strip(Tail(s))
    ELSE IF s[Len(s)] \in Whitespace THEN Strip(SubSeq(s, 1, Len(s) - 1))
    ELSE s

\* sub in s
Contains(s, sub) ==
    \E i \in 0..(Len(s) - Len(sub)) : SubSeq(s, i + 1, i + Len(sub)) = sub

\* bool(x) of an Optional boolean: None and False are falsy
Truthy(opt) == opt # None /\ opt[1]

-----------------------------------------------------------------------------
(* agent/tools.py: estimate_cost *)

\* Money inside estimate_cost is carried in 1/10000 of a dollar, and x * 0.35
\* is computed as (x / 100) * 35: every adjusted cost is a whole number of
\* hundredths of a unit, so no division below leaves a remainder.

DollarUnit == 10 * 1000

\* base_costs, in the order of the dict literal (a repeated key keeps its first place)
base_costs ==
    << [key |-> << "m", "r", "i" >>, cost |-> 1500],
       [key |-> << "c", "t", " ", "s", "c", "a", "n" >>, cost |-> 800],
       [key |-> << "x", "-", "r", "a", "y" >>, cost |-> 200],
       [key |-> << "c", "o", "l", "o", "n", "o", "s", "c", "o", "p", "y" >>, cost |-> 2500],
       [key |-> << "u", "l", "t", "r", "a", "s", "o", "u", "n", "d" >>, cost |-> 400],
       [key |-> << "b", "l", "o", "o", "d", " ", "t", "e", "s", "t" >>, cost |-> 150],
       [key |-> << "l", "a", "b" >>, cost |-> 150],
       [key |-> << "s", "u", "r", "g", "e", "r", "y" >>, cost |-> 15000],
       [key |-> << "e", "m", "e", "r", "g", "e", "n", "c", "y" >>, cost |-> 3000],
       [key |-> << "p", "h", "y", "s", "i", "c", "a", "l" >>, cost |-> 250],
       [key |-> << "w", "e", "l", "l", "n", "e", "s", "s", " ", "v", "i", "s", "i", "t" >>, cost |-> 250],
       [key |-> << "s", "p", "e", "c", "i", "a", "l", "i", "s", "t" >>, cost |-> 350],
       [key |-> << "p", "r", "i", "m", "a", "r", "y", " ", "c", "a", "r", "e" >>, cost |-> 200],
       [key |-> << "m", "e", "n", "t", "a", "l", " ", "h", "e", "a", "l", "t", "h" >>, cost |-> 200],
       [key |-> << "m", "a", "m", "m", "o", "g", "r", "a", "m" >>, cost |-> 300],
       [key |-> << "e", "c", "g" >>, cost |-> 300],
       [key |-> << "e", "c", "h", "o", "c", "a", "r", "d", "i", "o", "g", "r", "a", "m" >>, cost |-> 1200],
       [key |-> << "e", "n", "d", "o", "s", "c", "o", "p", "y" >>, cost |-> 1800],
       [key |-> << "b", "i", "o", "p", "s", "y" >>, cost |-> 1000],
       [key |-> << "i", "n", "f", "u", "s", "i", "o", "n" >>, cost |-> 2000],
       [key |-> << "p", "h", "y", "s", "i", "c", "a", "l", " ", "t", "h", "e", "r", "a", "p", "y" >>, cost |-> 200] >>

\* The first entry of an ordered table whose key occurs in the text, or 0.
FirstMatch(table, text) ==
    IF \E i \in DOMAIN table : Contains(text, table[i].key)
    THEN CHOOSE i \in DOMAIN table :
            /\ Contains(text, table[i].key)
            /\ \A j \in 1..(i - 1) : ~Contains(text, table[j].key)
    ELSE 0

BaseCost(procedure) ==
    LET i == FirstMatch(base_costs, Lower(procedure))
    IN  IF i = 0 THEN 1000 ELSE base_costs[i].cost

\* severity_multipliers.get(severity, 1.0), in tenths
SeverityMultiplier(severity) ==
    CASE severity = "mild"     -> 7
      [] severity = "moderate" -> 10
      [] severity = "severe"   -> 16
      [] severity = "critical" -> 25
      [] OTHER                 -> 10

\* A mutant of PatientCost: the copay is charged up to and at 500.
PatientCost_copayAt500(procedure, insurance_plan, network_status, severity, deductible_met) ==
    LET adjusted   == BaseCost(procedure) * SeverityMultiplier(severity) * (DollarUnit \div 10)
        plan_lower == Lower(insurance_plan)
        deductible == 240 * DollarUnit
    IN  IF Contains(plan_lower, << "m", "e", "d", "i", "c", "a", "r", "e" >>) /\ ~Contains(plan_lower, << "a", "d", "v", "a", "n", "t", "a", "g", "e" >>)
        THEN IF network_status = "in-network"
             THEN IF deductible_met THEN (adjusted \div 100) * 20
                  ELSE IF adjusted <= deductible THEN adjusted
                  ELSE deductible + ((adjusted - deductible) \div 100) * 20
             ELSE (adjusted \div 100) * 35
        ELSE IF network_status = "in-network"
             THEN IF deductible_met THEN (adjusted \div 100) * 20
                  ELSE (IF adjusted <= 500 * DollarUnit THEN 40 * DollarUnit ELSE 0)
                       + (adjusted \div 100) * 25
             ELSE (adjusted \div 100) * 50

\* patient_cost of estimate_cost, in DollarUnit
PatientCost(procedure, insurance_plan, network_status, severity, deductible_met) ==
    LET adjusted   == BaseCost(procedure) * SeverityMultiplier(severity) * (DollarUnit \div 10)
        plan_lower == Lower(insurance_plan)
        deductible == 240 * DollarUnit
    IN  IF Contains(plan_lower, << "m", "e", "d", "i", "c", "a", "r", "e" >>) /\ ~Contains(plan_lower, << "a", "d", "v", "a", "n", "t", "a", "g", "e" >>)
        THEN IF network_status = "in-network"
             THEN IF deductible_met THEN (adjusted \div 100) * 20
                  ELSE IF adjusted <= deductible THEN adjusted
                  ELSE deductible + ((adjusted - deductible) \div 100) * 20
             ELSE (adjusted \div 100) * 35
        ELSE IF network_status = "in-network"
             THEN IF deductible_met THEN (adjusted \div 100) * 20
                  ELSE (IF adjusted < 500 * DollarUnit THEN 40 * DollarUnit ELSE 0)
                       + (adjusted \div 100) * 25
             ELSE (adjusted \div 100) * 50

\* alternative_cost of estimate_cost, in DollarUnit
AlternativeCost(patient_cost) == (patient_cost \div 100) * 65

\* What f"${x:,.0f}" prints and parse_dollar reads back: whole dollars
FormatDollars(amount) == PyRound(amount, DollarUnit)

-----------------------------------------------------------------------------
(* agent/graph.py *)

\* specialty_map of node_find_hospitals, in the order of the dict literal
specialty_map ==
    << [key |-> << "m", "r", "i" >>, specialty |-> "radiology"],
       [key |-> << "c", "t", " ", "s", "c", "a", "n" >>, specialty |-> "radiology"],
       [key |-> << "x", "-", "r", "a", "y" >>, specialty |-> "radiology"],
       [key |-> << "u", "l", "t", "r", "a", "s", "o", "u", "n", "d" >>, specialty |-> "radiology"],
       [key |-> << "h", "e", "a", "r", "t" >>, specialty |-> "cardiology"],
       [key |-> << "c", "a", "r", "d", "i", "a", "c" >>, specialty |-> "cardiology"],
       [key |-> << "s", "u", "r", "g", "e", "r", "y" >>, specialty |-> "surgery"],
       [key |-> << "m", "e", "n", "t", "a", "l" >>, specialty |-> "psychiatry"],
       [key |-> << "t", "h", "e", "r", "a", "p", "y" >>, specialty |-> "physical therapy"],
       [key |-> << "c", "o", "l", "o", "n", "o", "s", "c", "o", "p", "y" >>, specialty |-> "gastroenterology"],
       [key |-> << "e", "n", "d", "o", "s", "c", "o", "p", "y" >>, specialty |-> "gastroenterology"],
       [key |-> << "o", "r", "t", "h", "o", "p", "e", "d", "i", "c" >>, specialty |-> "orthopedics"],
       [key |-> << "k", "n", "e", "e" >>, specialty |-> "orthopedics"],
       [key |-> << "h", "i", "p" >>, specialty |-> "orthopedics"] >>

\* ---- the inputs of a run ----
InsuranceInputs ==
    { << >>,
      << " ", " " >>,
      << "n", "o" >>,
      << "n", "/", "a" >>,
      << "n", "o", "n", "e" >>,
      << "u", "n", "k", "n", "o", "w", "n" >>,
      << " ", "U", "N", "K", "N", "O", "W", "N", " " >>,
      << "A", "e", "t", "n", "a" >>,
      << "C", "i", "g", "n", "a", " " >>,
      << "K", "a", "i", "s", "e", "r" >>,
      << "H", "u", "m", "a", "n", "a", " ", "G", "o", "l", "d", " ", "P", "l", "u", "s", " ", "H", "M", "O" >>,
      << "I", " ", "h", "a", "v", "e", " ", "H", "u", "m", "a", "n", "a", " ", "G", "o", "l", "d", " ", "P", "l", "u", "s", " ", "H", "M", "O" >> }

CareInputs ==
    { << "k", "n", "e", "e", " ", "M", "R", "I" >>,
      << "c", "o", "l", "o", "n", "o", "s", "c", "o", "p", "y" >> }

HistoryInputs ==
    { << >>,
      << " " >>,
      << "d", "i", "a", "b", "e", "t", "e", "s" >> }

\* DEFAULT_PLAN
DEFAULT_PLAN ==
    [plan_name          |-> << "O", "r", "i", "g", "i", "n", "a", "l", " ", "M", "e", "d", "i", "c", "a", "r", "e", " ", "(", "P", "a", "r", "t", " ", "A", "/", "B", ")" >>,
     plan_type          |-> << "O", "r", "i", "g", "i", "n", "a", "l", " ", "M", "e", "d", "i", "c", "a", "r", "e" >>,
     insurance_company  |-> << "M", "e", "d", "i", "c", "a", "r", "e" >>,
     deductible         |-> 240,
     out_of_pocket_max  |-> None,
     copay_primary_care |-> 0,
     copay_specialist   |-> 0,
     coinsurance        |-> 20,
     is_default         |-> TRUE]

\* ---- the text extract_plan_details returns ----
\* A text is its labelled lines: the label, what follows the colon, and the
\* first number of the line (None when the line has no digit).
Line(label, text, amount) == [label |-> label, text |-> text, amount |-> amount]

PlanText(name, type, company, deductible, oop) ==
    << Line("Plan Name:", name, None), Line("Plan Type:", type, None),
       Line("Insurance Company:", company, None),
       Line("Deductible:", << "$" >>, deductible),
       Line("Out-of-Pocket Max:", << "$" >>, oop) >>

\* What the tool can answer: a Medicare Advantage plan, a plan whose name
\* says Medicare, a text with nothing found, and its one-line failure text.
PlanToolOutputs ==
    { PlanText(<< "H", "u", "m", "a", "n", "a", " ", "G", "o", "l", "d", " ", "P", "l", "u", "s", " ", "H", "M", "O" >>, << "M", "e", "d", "i", "c", "a", "r", "e", " ", "A", "d", "v", "a", "n", "t", "a", "g", "e" >>, << "H", "u", "m", "a", "n", "a" >>,
               Some(250), Some(4600)),
      PlanText(<< "O", "r", "i", "g", "i", "n", "a", "l", " ", "M", "e", "d", "i", "c", "a", "r", "e" >>, << "O", "r", "i", "g", "i", "n", "a", "l", " ", "M", "e", "d", "i", "c", "a", "r", "e" >>, << "N", "o", "t", " ", "f", "o", "u", "n", "d" >>,
               Some(240), None),
      PlanText(<< "N", "o", "t", " ", "f", "o", "u", "n", "d" >>, << "N", "o", "n", "e" >>, << "N", "o", "t", " ", "f", "o", "u", "n", "d" >>, None, None),
      << >> }

\* The lines of a text that carry the label.
Labelled(text, label) == SelectSeq(text, LAMBDA l : l.label = label)

parse_dollar(text, label) ==
    LET hits == SelectSeq(Labelled(text, label), LAMBDA l : l.amount # None)
    IN  IF hits # << >> THEN hits[1].amount[1] ELSE 0

parse_percent(text, label) ==
    LET hits == SelectSeq(Labelled(text, label), LAMBDA l : l.amount # None)
    IN  IF hits # << >> THEN hits[1].amount[1] ELSE 20

parse_field(text, label) ==
    LET hits == SelectSeq(Labelled(text, label),
                          LAMBDA l : /\ Strip(l.text) # << >>
                                     /\ Strip(l.text) \notin { << "N", "o", "n", "e" >>, << "N", "o", "t", " ", "f", "o", "u", "n", "d" >> })
    IN  IF hits # << >> THEN Strip(hits[1].text) ELSE << >>

\* LangGraph merges the dict a node returns into the state.
Merge(st, update) == Update(st, update)

HasInsurance_ge(insurance_input) ==
    LET raw == Strip(insurance_input)
        no_insurance_signals ==
            { << "n", "o", "n", "e" >>, << "n", "o" >>, << "s", "k", "i", "p" >>, << "n", "/", "a" >>, << "n", "a" >>, << "u", "n", "k", "n", "o", "w", "n" >>, << >> }
    IN  Len(raw) >= 5 /\ Lower(raw) \notin no_insurance_signals

\* node_check_inputs: the value of has_insurance
HasInsurance(insurance_input) ==
    LET raw == Strip(insurance_input)
        no_insurance_signals ==
            { << "n", "o", "n", "e" >>, << "n", "o" >>, << "s", "k", "i", "p" >>, << "n", "/", "a" >>, << "n", "a" >>, << "u", "n", "k", "n", "o", "w", "n" >>, << >> }
    IN  Len(raw) > 5 /\ Lower(raw) \notin no_insurance_signals

node_check_inputs(st) == [has_insurance |-> Some(HasInsurance(st.insurance_input))]

node_extract_plan(st, tool_result) ==
    [plan_details |-> Some(
        [raw_output         |-> tool_result,
         plan_name          |-> parse_field(tool_result, "Plan Name:"),
         plan_type          |-> parse_field(tool_result, "Plan Type:"),
         insurance_company  |-> parse_field(tool_result, "Insurance Company:"),
         deductible         |-> parse_dollar(tool_result, "Deductible:"),
         out_of_pocket_max  |-> Some(parse_dollar(tool_result, "Out-of-Pocket Max:")),
         copay_specialist   |-> parse_dollar(tool_result, "Copay Specialist:"),
         copay_primary_care |-> parse_dollar(tool_result, "Copay Primary Care:"),
         coinsurance        |-> parse_percent(tool_result, "Coinsurance:"),
         is_default         |-> FALSE])]

node_use_defaults(st) == [plan_details |-> Some(DEFAULT_PLAN)]

route_after_check_swapped(st) ==
    IF Truthy(st.has_insurance) THEN "use_defaults" ELSE "extract_plan"

route_after_check(st) ==
    IF Truthy(st.has_insurance) THEN "extract_plan" ELSE "use_defaults"

\* ---- what the severity oracle answers ----
\* A JSON value is an object (a dict) or something else (here: an array).
JsonObject(d) == [object |-> TRUE, value |-> d]

JsonArray == [object |-> FALSE]

SeverityJsons ==
    { JsonObject([severity |-> s]) : s \in {"mild", "moderate", "severe", "critical", "extreme"} }
        \cup { JsonObject(<< >>), JsonArray }

\* node_assess_severity once llm.invoke has answered
node_assess_severity_parse(response) ==
    LET data == JsonLoads(response)
    IN  IF data = None THEN [severity |-> Some("moderate")]
        ELSE IF ~data[1].object THEN [severity |-> Some("moderate")]
        ELSE [severity |-> Some(Get(data[1].value, "severity", "moderate"))]

\* ---- the provider directory (NPI registry) ----
MaxOrgs == 2

OrgNames == { "", "Mercy Hospital", "Kings County Hospital" }

RECURSIVE SeqsUpTo(_, _)
SeqsUpTo(S, n) ==
    IF n = 0 THEN { << >> }
    ELSE LET shorter == SeqsUpTo(S, n - 1)
         IN  shorter \cup { Append(q, x) : q \in { r \in shorter : Len(r) = n - 1 }, x \in S }

\* What one query can give: an exception (None) or the "results" list.
DirectoryOutcomes ==
    { None } \cup { Some(r) : r \in SeqsUpTo({ [organization_name |-> n] : n \in OrgNames }, MaxOrgs) }

Specialty(care_needed) ==
    LET i == FirstMatch(specialty_map, Lower(care_needed))
    IN  IF i = 0 THEN "hospital" ELSE specialty_map[i].specialty

\* The loop of node_find_hospitals over the results: unnamed entries are left out.
RECURSIVE HospitalsOf(_)
HospitalsOf(results) ==
    IF results = << >> THEN << >>
    ELSE LET name == Get(results[1], "organization_name", "")
             rest == HospitalsOf(Tail(results))
         IN  IF name = "" THEN rest
             ELSE << [hospital       |-> name,
                      address        |-> "address",
                      phone          |-> "phone",
                      npi            |-> "npi",
                      network_status |-> "unknown",
                      estimated_cost |-> 0] >> \o rest

\* What dir_queries keeps of a query: the specialty asked for and how it ended.
Query(specialty, q) ==
    [taxonomy_description |-> specialty,
     outcome |-> IF q = None THEN "raised" ELSE IF q[1] = << >> THEN "no results" ELSE "results"]

node_find_hospitals_retryAlways(st, q1, q2) ==
    LET specialty == Specialty(st.care_needed)
    IN  IF q1 # None /\ q1[1] # << >>
        THEN [update |-> [hospitals |-> Some(HospitalsOf(q1[1]))],
              queried |-> << Query(specialty, q1) >>]
        ELSE [update |-> [hospitals |-> Some(IF q2 = None THEN << >> ELSE HospitalsOf(q2[1]))],
              queried |-> << Query(specialty, q1), Query("hospital", q2) >>]

\* node_find_hospitals: q1 is the outcome of the query for the specialty, q2
\* the outcome of the query for "hospital", made when the first gave no result.
\* Gives the state update and the queries made.
node_find_hospitals(st, q1, q2) ==
    LET specialty == Specialty(st.care_needed)
    IN  IF q1 = None
        THEN [update |-> [hospitals |-> Some(<< >>)], queried |-> << Query(specialty, q1) >>]
        ELSE IF q1[1] # << >>
        THEN [update |-> [hospitals |-> Some(HospitalsOf(q1[1]))],
              queried |-> << Query(specialty, q1) >>]
        ELSE IF q2 = None
        THEN [update |-> [hospitals |-> Some(<< >>)],
              queried |-> << Query(specialty, q1), Query("hospital", q2) >>]
        ELSE [update |-> [hospitals |-> Some(HospitalsOf(q2[1]))],
              queried |-> << Query(specialty, q1), Query("hospital", q2) >>]

\* ---- check_network_status ----
\* The tool's text says in-network, out-of-network or unknown, or is its
\* failure text.
NetworkTexts == { "in-network", "out-of-network", "unknown", "failed" }

ClassifyNetwork(tool_result) ==
    IF tool_result = "in-network" THEN "in-network"
    ELSE IF tool_result = "out-of-network" THEN "out-of-network"
    ELSE "unknown"

\* hospitals[:4]
FirstFour(hospitals) == SubSeq(hospitals, 1, IF Len(hospitals) < 4 THEN Len(hospitals) ELSE 4)

\* The names node_check_network reads from the first four providers.
NamesRead(hospitals) ==
    { Get(FirstFour(hospitals)[i], "name", "") : i \in DOMAIN FirstFour(hospitals) } \ { "" }

RECURSIVE NetworkLoop(_, _, _)
NetworkLoop(hospitals, is_default, tool) ==
    IF hospitals = << >> THEN << >>
    ELSE LET hospital == hospitals[1]
             name     == Get(hospital, "name", "")
             rest     == NetworkLoop(Tail(hospitals), is_default, tool)
         IN  IF name = "" THEN rest
             ELSE << [name    |-> name,
                      address |-> Get(hospital, "address", ""),
                      phone   |-> Get(hospital, "phone", ""),
                      status  |-> IF is_default THEN "accepts-medicare"
                                  ELSE ClassifyNetwork(tool[name])] >> \o rest

\* node_check_network: tool gives the text of check_network_status for each name
node_check_network(st, tool) ==
    LET hospitals    == st.hospitals[1]
        plan_details == st.plan_details[1]
        is_default   == Get(plan_details, "is_default", FALSE)
    IN  [network_results |-> Some(NetworkLoop(FirstFour(hospitals), is_default, tool))]

\* ---- node_estimate_cost ----
\* x["estimated_cost"] or 9999
SortKey(x) == IF x.estimated_cost = 0 THEN 9999 ELSE x.estimated_cost

\* list.sort(key=...): stable, ascending
RECURSIVE InsertSorted(_, _)
InsertSorted(sorted, x) ==
    IF sorted = << >> THEN << x >>
    ELSE IF SortKey(sorted[Len(sorted)]) <= SortKey(x) THEN Append(sorted, x)
    ELSE Append(InsertSorted(SubSeq(sorted, 1, Len(sorted) - 1), x), sorted[Len(sorted)])

RECURSIVE SortByCost(_)
SortByCost(list) ==
    IF list = << >> THEN << >>
    ELSE InsertSorted(SortByCost(SubSeq(list, 1, Len(list) - 1)), list[Len(list)])

node_estimate_cost_updatesHospitals(st) ==
    LET plan_details    == st.plan_details[1]
        network_results == st.network_results[1]
        severity        == st.severity[1]
        plan_name       == Get(plan_details, "plan_name", << "O", "r", "i", "g", "i", "n", "a", "l", " ", "M", "e", "d", "i", "c", "a", "r", "e" >>)
        cost_results    ==
            [i \in DOMAIN network_results |->
                LET hospital == network_results[i]
                IN  [hospital       |-> hospital.name,
                     address        |-> Get(hospital, "address", ""),
                     phone          |-> Get(hospital, "phone", ""),
                     network_status |-> hospital.status,
                     estimated_cost |-> FormatDollars(
                         PatientCost(st.care_needed, plan_name, hospital.status,
                                     severity, FALSE))]]
    IN  [cost_estimate |-> Some([hospitals |-> SortByCost(cost_results)]),
         hospitals     |-> Some(SortByCost(cost_results))]

node_estimate_cost(st) ==
    LET plan_details    == st.plan_details[1]
        network_results == st.network_results[1]
        severity        == st.severity[1]
        plan_name       == Get(plan_details, "plan_name", << "O", "r", "i", "g", "i", "n", "a", "l", " ", "M", "e", "d", "i", "c", "a", "r", "e" >>)
        cost_results    ==
            [i \in DOMAIN network_results |->
                LET hospital == network_results[i]
                IN  [hospital       |-> hospital.name,
                     address        |-> Get(hospital, "address", ""),
                     phone          |-> Get(hospital, "phone", ""),
                     network_status |-> hospital.status,
                     estimated_cost |-> FormatDollars(
                         PatientCost(st.care_needed, plan_name, hospital.status,
                                     severity, FALSE))]]
    IN  [cost_estimate |-> Some([hospitals |-> SortByCost(cost_results)])]

\* ---- node_find_alternatives ----
AlternativesTexts == { "Alternatives for the procedure", "Alternatives search failed" }

\* The current_cost handed to the find_alternatives tool.
Cheapest(st) ==
    LET hospitals == Get(st.cost_estimate[1], "hospitals", << >>)
    IN  IF hospitals # << >> THEN hospitals[1].estimated_cost ELSE 500

node_find_alternatives(st, tool_result) == [alternatives |-> Some(tool_result)]

\* ---- node_generate_answer ----
\* What the synthesis oracle answers: a JSON object with text fields (prose
\* stands for headline, spoken_summary, next_step, ...), alone or
\* with structured fields of its own making, or a JSON array.
AnswerJsons ==
    { JsonObject([prose |-> "generated"]), JsonArray,
      JsonObject([prose |-> "generated", symptom_reason |-> "invented",
                  urgency |-> "urgent"]) } \cup
    { JsonObject([prose |-> "generated", hospitals |-> << "Invented Clinic" >>,
                  plan_details |-> [plan_name |-> << "I", "n", "v", "e", "n", "t", "e", "d", " ", "P", "l", "a", "n" >>, is_default |-> ~u],
                  alternatives |-> "invented", used_defaults |-> u]) : u \in BOOLEAN }

\* A mutant of AttachStructured: a used_defaults the oracle wrote is kept.
AttachStructured_keepFlag(answer, hospitals, plan_details, alternatives, is_default) ==
    Update(answer, [hospitals     |-> hospitals,
                    plan_details  |-> plan_details,
                    alternatives  |-> alternatives,
                    used_defaults |-> Get(answer, "used_defaults", is_default)])

\* The four assignments at the end of node_generate_answer.
AttachStructured(answer, hospitals, plan_details, alternatives, is_default) ==
    Update(answer, [hospitals     |-> hospitals,
                    plan_details  |-> plan_details,
                    alternatives  |-> alternatives,
                    used_defaults |-> is_default])

\* node_generate_answer once llm.invoke has answered: Some(update), or None
\* when an assignment into the parsed value raises TypeError.
node_generate_answer(st, response) ==
    LET plan_details == st.plan_details[1]
        hospitals    == Get(st.cost_estimate[1], "hospitals", << >>)
        alternatives == st.alternatives[1]
        is_default   == Get(plan_details, "is_default", FALSE)
        parsed       == JsonLoads(response)
        fallback     == [prose |-> "response text", confidence |-> 75]
    IN  IF parsed # None /\ ~parsed[1].object THEN None
        ELSE Some([final_answer |-> Some(
                 AttachStructured(IF parsed = None THEN fallback ELSE parsed[1].value,
                                  hospitals, plan_details, alternatives, is_default))])

\* A mutant of ErrorAnswer: the error answer carries a confidence.
ErrorAnswer_confident ==
    [error |-> "exception text", prose |-> "error summary", hospitals |-> << >>,
     confidence |-> 75, used_defaults |-> FALSE]

\* The answer run_agent makes when an exception leaves the graph.
ErrorAnswer ==
    [error |-> "exception text", prose |-> "error summary", hospitals |-> << >>,
     confidence |-> 0, used_defaults |-> FALSE]

-----------------------------------------------------------------------------
(* agent/graph.py: build_graph and run_agent *)

SeverityResponses == { Wrap(f, j) : f \in Fences, j \in SeverityJsons } \cup { PlainText }

AnswerResponses == { Wrap(f, j) : f \in Fences, j \in AnswerJsons } \cup { PlainText }

\* initial_state of run_agent
InitialState(insurance_input, care_needed, medical_history) ==
    [insurance_input |-> insurance_input,
     input_type      |-> "text",
     care_needed     |-> care_needed,
     zip_code        |-> "11201",
     file_path       |-> "",
     medical_history |-> medical_history,
     has_insurance   |-> None,
     plan_details    |-> None,
     severity        |-> None,
     hospitals       |-> None,
     network_results |-> None,
     cost_estimate   |-> None,
     alternatives    |-> None,
     final_answer    |-> None,
     error           |-> None]

PipelineInit ==
    /\ \E i \in InsuranceInputs, c \in CareInputs, m \in HistoryInputs :
          state = InitialState(i, c, m)
    /\ ppc = "check_inputs"
    /\ trace = << >>
    /\ result = None
    /\ dir_queries = << >>
    /\ CritiqueIdle
    /\ NoCall
    /\ NoSessions
    /\ NoRuns

\* A node runs to its end: its update is merged and the edge is followed.
RunNode(node, update, next) ==
    /\ ppc = node
    /\ state' = Merge(state, update)
    /\ trace' = Append(trace, node)
    /\ ppc' = next
    /\ UNCHANGED result

\* An exception leaves the node: agent.invoke raises, run_agent answers.
RaiseIn(node) ==
    /\ ppc = node
    /\ trace' = Append(trace, node)
    /\ ppc' = "returned"
    /\ result' = Some(ErrorAnswer)
    /\ UNCHANGED state

\* check_inputs and the conditional edge after it
CheckInputs ==
    /\ RunNode("check_inputs", node_check_inputs(state),
               route_after_check(Merge(state, node_check_inputs(state))))
    /\ UNCHANGED << dir_queries, besidesPipeline >>

ExtractPlan ==
    /\ \E tool_result \in PlanToolOutputs :
          RunNode("extract_plan", node_extract_plan(state, tool_result), "assess_severity")
    /\ UNCHANGED << dir_queries, besidesPipeline >>

UseDefaults ==
    /\ RunNode("use_defaults", node_use_defaults(state), "assess_severity")
    /\ UNCHANGED << dir_queries, besidesPipeline >>

\* assess_severity: no history, or the oracle answered
AssessSeverity ==
    /\ IF Strip(state.medical_history) = << >>
       THEN RunNode("assess_severity", [severity |-> Some("moderate")], "find_hospitals")
       ELSE \E response \in SeverityResponses :
               RunNode("assess_severity", node_assess_severity_parse(response),
                       "find_hospitals")
    /\ UNCHANGED << dir_queries, besidesPipeline >>

\* assess_severity: llm.invoke raises, outside the try block
AssessSeverityRaises ==
    /\ Strip(state.medical_history) # << >>
    /\ RaiseIn("assess_severity")
    /\ UNCHANGED << dir_queries, besidesPipeline >>

\* The second query is made only when the first gave an empty list.
FindHospitals ==
    /\ ppc = "find_hospitals"
    /\ \E q1 \in DirectoryOutcomes :
          \E q2 \in IF q1 = Some(<< >>) THEN DirectoryOutcomes ELSE { None } :
             LET out == node_find_hospitals(state, q1, q2)
             IN  /\ RunNode("find_hospitals", out.update, "check_network")
                 /\ dir_queries' = dir_queries \o out.queried
    /\ UNCHANGED besidesPipeline

CheckNetwork ==
    /\ ppc = "check_network"
    /\ \E tool \in [NamesRead(state.hospitals[1]) -> NetworkTexts] :
          RunNode("check_network", node_check_network(state, tool), "estimate_cost")
    /\ UNCHANGED << dir_queries, besidesPipeline >>

EstimateCost ==
    /\ RunNode("estimate_cost", node_estimate_cost(state), "find_alternatives")
    /\ UNCHANGED << dir_queries, besidesPipeline >>

FindAlternatives ==
    /\ \E tool_result \in AlternativesTexts :
          RunNode("find_alternatives", node_find_alternatives(state, tool_result),
                  "generate_answer")
    /\ UNCHANGED << dir_queries, besidesPipeline >>

\* generate_answer: the oracle answered
GenerateAnswer ==
    /\ ppc = "generate_answer"
    /\ \E response \in AnswerResponses :
          LET out == node_generate_answer(state, response)
          IN  IF out = None THEN RaiseIn("generate_answer")
              ELSE RunNode("generate_answer", out[1], "END")
    /\ UNCHANGED << dir_queries, besidesPipeline >>

\* generate_answer: llm.invoke raises, outside the try block
GenerateAnswerRaises ==
    /\ RaiseIn("generate_answer")
    /\ UNCHANGED << dir_queries, besidesPipeline >>

\* run_agent: agent.invoke returned, final_state.get("final_answer", {})
ReturnFinalAnswer ==
    /\ ppc = "END"
    /\ result' = Some(state.final_answer[1])
    /\ ppc' = "returned"
    /\ UNCHANGED << state, trace, dir_queries, besidesPipeline >>

PipelineNext ==
    \/ CheckInputs \/ ExtractPlan \/ UseDefaults
    \/ AssessSeverity \/ AssessSeverityRaises
    \/ FindHospitals \/ CheckNetwork \/ EstimateCost \/ FindAlternatives
    \/ GenerateAnswer \/ GenerateAnswerRaises
    \/ ReturnFinalAnswer

SpecPipeline == PipelineInit /\ [][PipelineNext]_vars

-----------------------------------------------------------------------------
(* Single functions, called on their own *)

\* ---- the sort of node_estimate_cost ----
MaxList == 3

\* Costs a cost_results entry can carry: none, small ones, and ones at and
\* above the 9999 that stands in for a cost of zero.
SortCosts == { 0, 150, 300, 9999, 10000 }

CostResults ==
    { [hospital |-> h, estimated_cost |-> c] :
          h \in { "Mercy Hospital", "Kings County Hospital" }, c \in SortCosts }

SortCalls == { [fn |-> "sort", cost_results |-> l] : l \in SeqsUpTo(CostResults, MaxList) }

\* ---- the tool estimate_cost ----
\* The keys of the benchmark table, and two procedures that have none.
Procedures ==
    { base_costs[i].key : i \in DOMAIN base_costs } \cup
    { << "k", "n", "e", "e", " ", "M", "R", "I" >>,
      << "a", "n", "n", "u", "a", "l", " ", "c", "h", "e", "c", "k", "u", "p" >> }

PlanNames ==
    { << "O", "r", "i", "g", "i", "n", "a", "l", " ", "M", "e", "d", "i", "c", "a", "r", "e", " ", "(", "P", "a", "r", "t", " ", "A", "/", "B", ")" >>,
      << "H", "u", "m", "a", "n", "a", " ", "M", "e", "d", "i", "c", "a", "r", "e", " ", "A", "d", "v", "a", "n", "t", "a", "g", "e" >>,
      << "H", "u", "m", "a", "n", "a", " ", "G", "o", "l", "d", " ", "P", "l", "u", "s", " ", "H", "M", "O" >>,
      << >> }

NetworkStatuses == { "in-network", "out-of-network", "unknown", "accepts-medicare" }

Severities == { "mild", "moderate", "severe", "critical", "extreme", "" }

CostCalls ==
    { [fn |-> "estimate_cost", procedure |-> p, insurance_plan |-> i,
       network_status |-> n, severity |-> s, deductible_met |-> d] :
          p \in Procedures, i \in PlanNames, n \in NetworkStatuses, s \in Severities,
          d \in BOOLEAN }

\* ---- the sites that parse an oracle response ----
\* The response is the JSON value `value`, wrapped as `style` says.
ParseCalls ==
    { [fn |-> "parse_llm_json", style |-> f, value |-> j] :
          f \in Fences, j \in ScoreJsons \cup RewriteJsons }

SeverityCalls ==
    { [fn |-> "node_assess_severity", style |-> f, value |-> j] :
          f \in Fences, j \in SeverityJsons }

\* A state as it is when generate_answer starts, on the use-defaults branch.
StateBeforeAnswer ==
    Merge(InitialState(<< >>, << "c", "o", "l", "o", "n", "o", "s", "c", "o", "p", "y" >>, << >>),
          [has_insurance   |-> Some(FALSE),
           plan_details    |-> Some(DEFAULT_PLAN),
           severity        |-> Some("moderate"),
           hospitals       |-> Some(<< >>),
           network_results |-> Some(<< >>),
           cost_estimate   |-> Some([hospitals |-> << >>]),
           alternatives    |-> Some("Alternatives for the procedure")])

AnswerCalls ==
    { [fn |-> "node_generate_answer", style |-> f, value |-> j] :
          f \in Fences, j \in AnswerJsons }

Calls == SortCalls \cup CostCalls \cup ParseCalls \cup SeverityCalls \cup AnswerCalls

CallsInit ==
    /\ call \in { Some(c) : c \in Calls }
    /\ ret = None
    /\ CritiqueIdle
    /\ PipelineIdle
    /\ NoSessions
    /\ NoRuns

\* The function named by the call is the one to run.
Calling(fn) == call # None /\ ret = None /\ call[1].fn = fn

\* cost_results.sort(key=lambda x: x["estimated_cost"] or 9999)
SortCostResults ==
    /\ Calling("sort")
    /\ ret' = Some(SortByCost(call[1].cost_results))
    /\ UNCHANGED << call, besidesCalls >>

\* estimate_cost: the two amounts of its answer, in DollarUnit
EstimateCostTool ==
    /\ Calling("estimate_cost")
    /\ LET c == call[1]
           patient_cost == PatientCost(c.procedure, c.insurance_plan, c.network_status,
                                       c.severity, c.deductible_met)
       IN  ret' = Some([patient_cost |-> patient_cost,
                        alternative_cost |-> AlternativeCost(patient_cost)])
    /\ UNCHANGED << call, besidesCalls >>

\* parse_llm_json on a response, as score_answer and rewrite_answer call it
ParseLlmJson ==
    /\ Calling("parse_llm_json")
    /\ ret' = Some(parse_llm_json(Wrap(call[1].style, call[1].value)))
    /\ UNCHANGED << call, besidesCalls >>

\* node_assess_severity from the response on
AssessSeverityParse ==
    /\ Calling("node_assess_severity")
    /\ ret' = Some(node_assess_severity_parse(Wrap(call[1].style, call[1].value)))
    /\ UNCHANGED << call, besidesCalls >>

\* node_generate_answer from the response on: its update, or None when it raises
GenerateAnswerParse ==
    /\ Calling("node_generate_answer")
    /\ ret' = Some(node_generate_answer(StateBeforeAnswer,
                                        Wrap(call[1].style, call[1].value)))
    /\ UNCHANGED << call, besidesCalls >>

CallsNext ==
    \/ SortCostResults \/ EstimateCostTool
    \/ ParseLlmJson \/ AssessSeverityParse \/ GenerateAnswerParse

SpecCalls == CallsInit /\ [][CallsNext]_vars

-----------------------------------------------------------------------------
(* Two requests served at the same time: routes/estimate.py calls run_agent,
   run_critique_loop and save_session for each. Dicts are objects: objs[a] is
   the dict at reference a, and objs[1] is the module-level DEFAULT_PLAN. *)

Runs == { 1, 2 }

\* The reference of the module-level DEFAULT_PLAN.
DefaultPlanRef == 1

\* The plan dict node_extract_plan builds.
ExtractedPlan ==
    [plan_name |-> << "H", "u", "m", "a", "n", "a", " ", "G", "o", "l", "d", " ", "P", "l", "u", "s", " ", "H", "M", "O" >>,
     deductible |-> 250, coinsurance |-> 20, is_default |-> FALSE]

RunsInit ==
    /\ objs = << DEFAULT_PLAN >>
    /\ runs \in [Runs -> { [pc |-> "plan", has_insurance |-> h, plan |-> 0, answer |-> 0,
                           current |-> 0, best |-> 0, rewrites |-> 0] : h \in BOOLEAN }]
    /\ CritiqueIdle
    /\ PipelineIdle
    /\ NoCall
    /\ NoSessions

\* node_use_defaults: the state's plan_details is DEFAULT_PLAN itself
RunUseDefaults(r) ==
    /\ runs[r].pc = "plan"
    /\ ~runs[r].has_insurance
    /\ runs' = [runs EXCEPT ![r].plan = DefaultPlanRef, ![r].pc = "answer"]
    /\ UNCHANGED << objs, besidesRuns >>

\* node_extract_plan: a new dict
RunExtractPlan(r) ==
    /\ runs[r].pc = "plan"
    /\ runs[r].has_insurance
    /\ objs' = Append(objs, ExtractedPlan)
    /\ runs' = [runs EXCEPT ![r].plan = Len(objs) + 1, ![r].pc = "answer"]
    /\ UNCHANGED besidesRuns

\* node_generate_answer: a new dict that holds the state's plan_details
RunGenerateAnswer(r) ==
    /\ runs[r].pc = "answer"
    /\ objs' = Append(objs, [prose |-> "generated", plan_details |-> runs[r].plan,
                             used_defaults |-> objs[runs[r].plan].is_default])
    /\ runs' = [runs EXCEPT ![r].answer = Len(objs) + 1, ![r].current = Len(objs) + 1,
                            ![r].best = Len(objs) + 1, ![r].pc = "critique"]
    /\ UNCHANGED besidesRuns

\* run_agent's except block: a new dict without plan_details
RunFails(r) ==
    /\ runs[r].pc = "answer"
    /\ objs' = Append(objs, ErrorAnswer)
    /\ runs' = [runs EXCEPT ![r].answer = Len(objs) + 1, ![r].current = Len(objs) + 1,
                            ![r].best = Len(objs) + 1, ![r].pc = "critique"]
    /\ UNCHANGED besidesRuns

\* One iteration of run_critique_loop that rewrites: the candidate scored may
\* become the best, and rewrite_answer makes a new dict that holds the
\* plan_details of the old one, or a new empty dict when it has none.
RunRewrite(r) ==
    /\ runs[r].pc = "critique"
    /\ runs[r].rewrites < MAX_ITERATIONS - 1
    /\ LET old == objs[runs[r].current]
           has == "plan_details" \in DOMAIN old
           at  == IF has THEN Len(objs) + 1 ELSE Len(objs) + 2
           rewritten == [prose |-> "rewritten",
                         plan_details |-> IF has THEN old.plan_details ELSE Len(objs) + 1,
                         used_defaults |-> Get(old, "used_defaults", FALSE)]
       IN  /\ objs' = IF has THEN Append(objs, rewritten)
                      ELSE objs \o << << >>, rewritten >>
           /\ \E b \in { runs[r].best, runs[r].current } :
                 runs' = [runs EXCEPT ![r].best = b, ![r].current = at,
                                      ![r].rewrites = @ + 1]
    /\ UNCHANGED besidesRuns

AttachedTo_plan(r, b) == IF "plan_details" \in DOMAIN objs[b] THEN objs[b].plan_details ELSE b

\* The dict run_critique_loop writes the history into: best_answer.
AttachedTo(r, b) == b

\* The last iteration of run_critique_loop and the three assignments after it.
RunAttach(r) ==
    /\ runs[r].pc = "critique"
    /\ \E b \in { runs[r].best, runs[r].current } :
          /\ objs' = [objs EXCEPT ![AttachedTo(r, b)] =
                         Update(@, [score_history |-> "history", final_score |-> "score",
                                    iterations |-> runs[r].rewrites + 1])]
          /\ runs' = [runs EXCEPT ![r].best = b, ![r].pc = "save"]
    /\ UNCHANGED besidesRuns

\* estimate: plan_details of the final result is read and handed to
\* save_session, and the response is built
RunSave(r) ==
    /\ runs[r].pc = "save"
    /\ runs' = [runs EXCEPT ![r].pc = "done"]
    /\ UNCHANGED << objs, besidesRuns >>

RunsNext ==
    \E r \in Runs :
        \/ RunUseDefaults(r) \/ RunExtractPlan(r) \/ RunGenerateAnswer(r) \/ RunFails(r)
        \/ RunRewrite(r) \/ RunAttach(r) \/ RunSave(r)

SpecRuns == RunsInit /\ [][RunsNext]_vars

-----------------------------------------------------------------------------
(* agent/memory.py: the sessions table, save_session and load_session.
   A care_needed text is a number: 0 is the empty string, and 1..MaxCare are
   different texts that are not empty. *)

MaxCare == 12

MaxSaves == 3

\* The number of searches care_history[-10:] keeps.
HistoryLimit == 10

SessionId == "test-session-clearcare-001"

NoCare == 0

CareTexts == 0..MaxCare

RangeOf(s) == { s[i] : i \in DOMAIN s }

\* s[-n:]
LastN(s, n) == IF Len(s) <= n THEN s ELSE SubSeq(s, Len(s) - n + 1, Len(s))

\* The table after k saves of k different texts into an empty table.
TableAfter(k) ==
    IF k = 0 THEN << >>
    ELSE [id \in { SessionId } |-> [session_id |-> id, care_history |-> [i \in 1..k |-> i]]]

MemoryInit ==
    /\ sessions \in { TableAfter(k) : k \in 0..HistoryLimit }
    /\ last_save = None
    /\ saving = << >>
    /\ CritiqueIdle
    /\ PipelineIdle
    /\ NoCall
    /\ NoRuns

\* load_session: the row, or None when there is none or the query raises
load_session(session_id, raises) ==
    IF raises \/ session_id \notin DOMAIN sessions THEN None ELSE Some(sessions[session_id])

\* The care_history save_session puts in the row.
care_history(existing, care_needed) ==
    LET loaded == IF existing # None /\ Get(existing[1], "care_history", << >>) # << >>
                  THEN existing[1].care_history
                  ELSE << >>
    IN  IF care_needed # NoCare /\ care_needed \notin RangeOf(loaded)
        THEN LastN(Append(loaded, care_needed), HistoryLimit)
        ELSE loaded

Saves == IF last_save = None THEN 0 ELSE last_save[1].call

Upsert(session_id, row) ==
    [id \in DOMAIN sessions \cup { session_id } |-> IF id = session_id THEN row ELSE sessions[id]]

\* save_session when the query of load_session and the upsert both succeed
SaveSession ==
    /\ Saves < MaxSaves
    /\ \E care_needed \in CareTexts :
          /\ sessions' = Upsert(SessionId,
                                [session_id |-> SessionId,
                                 care_history |-> care_history(load_session(SessionId, FALSE), care_needed)])
          /\ last_save' = Some([call |-> Saves + 1, care_needed |-> care_needed, returned |-> Some(TRUE)])
    /\ UNCHANGED << saving, besidesMemory >>

\* save_session when the query of load_session raises: load_session returns
\* None, and the row is written with a history that starts again
SaveSessionLoadRaises ==
    /\ Saves < MaxSaves
    /\ \E care_needed \in CareTexts :
          /\ sessions' = Upsert(SessionId,
                                [session_id |-> SessionId,
                                 care_history |-> care_history(load_session(SessionId, TRUE), care_needed)])
          /\ last_save' = Some([call |-> Saves + 1, care_needed |-> care_needed, returned |-> Some(TRUE)])
    /\ UNCHANGED << saving, besidesMemory >>

\* save_session when the upsert raises: False, and the table is as it was
SaveSessionUpsertRaises ==
    /\ Saves < MaxSaves
    /\ \E care_needed \in CareTexts :
          last_save' = Some([call |-> Saves + 1, care_needed |-> care_needed, returned |-> Some(FALSE)])
    /\ UNCHANGED << sessions, saving, besidesMemory >>

MemoryNext == SaveSession \/ SaveSessionLoadRaises \/ SaveSessionUpsertRaises

SpecMemory == MemoryInit /\ [][MemoryNext]_vars

-----------------------------------------------------------------------------
(* routes/estimate.py: the flag handed to run_critique_loop *)

\* has_insurance = bool(insurance_input), of the text run_agent was given
CritiqueHasInsurance(insurance_input) == insurance_input # << >>

-----------------------------------------------------------------------------
(* agent/memory.py: two calls of save_session for one session_id under way at
   the same time. A call first loads the row, then upserts the row it built. *)

Callers == { 1, 2 }

SavesInit ==
    /\ sessions \in { TableAfter(k) : k \in 0..HistoryLimit }
    /\ last_save = None
    /\ \E a, b \in CareTexts \ { NoCare } :
          /\ a # b
          /\ saving = [c \in Callers |->
                          [pc |-> "load", care_needed |-> IF c = 1 THEN a ELSE b,
                           care_history |-> << >>, stale |-> FALSE, returned |-> None]]
    /\ CritiqueIdle
    /\ PipelineIdle
    /\ NoCall
    /\ NoRuns

\* The other call has loaded the row and not yet upserted its own.
OtherBetween(c) == \E o \in Callers \ { c } : saving[o].pc = "upsert"

\* existing = load_session(session_id) and the lines that build care_history
SaveLoads(c) ==
    /\ saving[c].pc = "load"
    /\ saving' = [saving EXCEPT
                    ![c].care_history = care_history(load_session(SessionId, FALSE),
                                                     saving[c].care_needed),
                    ![c].stale = OtherBetween(c),
                    ![c].pc = "upsert"]
    /\ UNCHANGED << sessions, last_save, besidesMemory >>

\* The same when the query of load_session raises.
SaveLoadRaises(c) ==
    /\ saving[c].pc = "load"
    /\ saving' = [saving EXCEPT
                    ![c].care_history = care_history(load_session(SessionId, TRUE),
                                                     saving[c].care_needed),
                    ![c].stale = TRUE,
                    ![c].pc = "upsert"]
    /\ UNCHANGED << sessions, last_save, besidesMemory >>

\* The upsert of the row and return True
SaveUpserts(c) ==
    /\ saving[c].pc = "upsert"
    /\ sessions' = Upsert(SessionId, [session_id |-> SessionId,
                                      care_history |-> saving[c].care_history])
    /\ saving' = [saving EXCEPT ![c].pc = "done", ![c].returned = Some(TRUE)]
    /\ UNCHANGED << last_save, besidesMemory >>

\* The upsert raises: return False
SaveUpsertRaises(c) ==
    /\ saving[c].pc = "upsert"
    /\ saving' = [saving EXCEPT ![c].pc = "done", ![c].returned = Some(FALSE)]
    /\ UNCHANGED << sessions, last_save, besidesMemory >>

SavesNext ==
    \E c \in Callers :
        SaveLoads(c) \/ SaveLoadRaises(c) \/ SaveUpserts(c) \/ SaveUpsertRaises(c)

SpecSaves == SavesInit /\ [][SavesNext]_vars

-----------------------------------------------------------------------------
(* Properties of run_critique_loop *)

Abs(x) == IF x < 0 THEN -x ELSE x

Composites == { score_history[i].composite : i \in DOMAIN score_history }

\* C1: a run records at most 3 ScoreRecords, no ScoreRecord follows one whose
\* composite is 80 or more, and the loop does not go on (to a rewrite or to
\* another scoring) from an iteration whose composite is 80 or more.
C1_StopsAtThreshold ==
    /\ Len(score_history) <= 3
    /\ \A i \in DOMAIN score_history :
          i < Len(score_history) => score_history[i].composite < 80
    /\ (cpc \in {"rewrite", "score"} /\ score_history # << >>)
          => score_history[Len(score_history)].composite < 80

\* C1 witness: a run that stopped at its second iteration, whose composite
\* reached 80, and returned.
C1_Witness ==
    /\ cpc = "done"
    /\ Len(score_history) = 2
    /\ score_history[1].composite < 80
    /\ score_history[2].composite >= 80

\* C2: when run_critique_loop has returned, the final_score of the returned
\* answer is at least the composite of every ScoreRecord of its score_history.
C2_FinalScoreIsMax ==
    cpc = "done" =>
        \A i \in DOMAIN Returned.score_history :
            Returned.final_score >= Returned.score_history[i].composite

\* C2 witness: a returned run of three iterations whose last composite is
\* below an earlier one.
C2_Witness ==
    /\ cpc = "done"
    /\ Len(Returned.score_history) = 3
    /\ Returned.score_history[3].composite < Returned.score_history[1].composite
    /\ Returned.final_score > Returned.score_history[3].composite

\* c is sum / 4 rounded to the nearest integer, a tie going to the even one.
IsRoundedMean(c, sum) ==
    \/ Abs(4 * c - sum) < 2
    \/ Abs(4 * c - sum) = 2 /\ c % 2 = 0

\* C3: every ScoreRecord of score_history, from a scoring that succeeded or
\* from the failure fallback, has composite = round(mean of its own four
\* sub-scores).
C3_CompositeIsRoundedMean ==
    \A i \in DOMAIN score_history :
        LET r == score_history[i]
        IN  IsRoundedMean(r.composite, r.completeness + r.accuracy + r.clarity + r.safety)

\* C3 witness: a history that holds a record whose mean is no integer (the
\* composite is a rounding) and the record of a fallback-like (70, 70, 70, 70).
C3_Witness ==
    /\ \E i \in DOMAIN score_history :
          LET r == score_history[i]
          IN  (r.completeness + r.accuracy + r.clarity + r.safety) % 4 # 0
    /\ \E i \in DOMAIN score_history :
          LET r == score_history[i]
          IN  r.completeness = 70 /\ r.accuracy = 70 /\ r.clarity = 70 /\ r.safety = 70

\* How far run_critique_loop is from returning.
StepsLeft ==
    CASE cpc = "score"   -> 2 * (MAX_ITERATIONS - iteration) + 3
      [] cpc = "rewrite" -> 2 * (MAX_ITERATIONS - iteration) + 2
      [] cpc = "attach"  -> 1
      [] cpc = "done"    -> 0

\* C4: a run makes at most 3 scoring calls and at most 2 rewrite calls and
\* asks for no rewrite after the third scoring; and it terminates: until it
\* has returned it can take a step whatever the oracles do (a failing call
\* is a step too), and every step brings it nearer to returning.
C4_BoundedAndTerminates ==
    /\ [](score_calls <= 3 /\ rewrite_calls <= 2)
    /\ [](score_calls >= 3 => cpc # "rewrite")
    /\ [](cpc = "done" \/ ENABLED (ScoreFail \/ RewriteFail \/ Attach))
    /\ [](StepsLeft \in 0..(2 * MAX_ITERATIONS + 1))
    /\ [][StepsLeft' < StepsLeft]_vars

\* C4 witness: a run that used every call it may make and returned.
C4_Witness == cpc = "done" /\ score_calls = 3 /\ rewrite_calls = 2

\* The earliest iteration whose composite is the maximum of the history.
EarliestMax ==
    CHOOSE i \in DOMAIN score_history :
        /\ \A j \in DOMAIN score_history :
              score_history[j].composite <= score_history[i].composite
        /\ \A j \in 1..(i - 1) :
              score_history[j].composite < score_history[i].composite

\* C5: the returned answer has the text fields of the candidate scored at the
\* earliest iteration whose composite is the maximum of score_history.
C5_ReturnsBestCandidate ==
    cpc = "done" => Returned.prose = heap[candidates[EarliestMax]].prose

\* With no composite below 0 the returned answer is the candidate of the
\* earliest maximum.
C5_HoldsWithoutNegativeScores ==
    (\A i \in DOMAIN score_history : score_history[i].composite >= 0)
        => C5_ReturnsBestCandidate

\* C6: every candidate of the run, and so the answer returned, has the four
\* structured fields of the answer passed in.
C6_StructuredFieldsKept ==
    \A i \in DOMAIN heap : \A f \in StructuredFields :
        Get(heap[i], f, StructuredDefault(f)) = Get(arg_answer, f, StructuredDefault(f))

\* C6 witness: the answer returned is the dict of a rewrite, made from the
\* dict of an earlier rewrite.
C6_Witness ==
    /\ cpc = "done"
    /\ best_answer = 3
    /\ Returned.prose # 0

-----------------------------------------------------------------------------
(* Properties of the pipeline *)

\* s[i+1 .. j] is s without the whitespace at its two ends.
IsTrimOf(i, j, s) ==
    /\ \A k \in (1..i) \cup ((j + 1)..Len(s)) : s[k] \in Whitespace
    /\ i < j => (s[i + 1] \notin Whitespace /\ s[j] \notin Whitespace)

NoInsuranceWords ==
    { << "n", "o", "n", "e" >>, << "n", "o" >>, << "s", "k", "i", "p" >>, << "n", "/", "a" >>, << "n", "a" >>, << "u", "n", "k", "n", "o", "w", "n" >>, << >> }

\* The rule of C7 on an insurance text.
MeaningfulInsurance(s) ==
    \E i \in 0..Len(s) : \E j \in i..Len(s) :
        /\ IsTrimOf(i, j, s)
        /\ j - i > 5
        /\ Lower(SubSeq(s, i + 1, j)) \notin NoInsuranceWords

\* C7: once check-inputs has run, has_insurance is true exactly when the
\* trimmed insurance text is longer than 5 characters and its lowercase form
\* is none of none, no, skip, n/a, na, unknown and the empty string; "no", "",
\* "  " and "n/a" give false and "Humana Gold Plus HMO" gives true.
C7_HasInsuranceRule ==
    state.has_insurance # None =>
        /\ state.has_insurance[1] = MeaningfulInsurance(state.insurance_input)
        /\ state.insurance_input \in { << "n", "o" >>, << >>, << " ", " " >>, << "n", "/", "a" >> }
              => state.has_insurance[1] = FALSE
        /\ state.insurance_input = << "H", "u", "m", "a", "n", "a", " ", "G", "o", "l", "d", " ", "P", "l", "u", "s", " ", "H", "M", "O" >>
              => state.has_insurance[1] = TRUE

\* C7 witness: check-inputs has run on " UNKNOWN ", which is longer than 5
\* characters only before it is trimmed and a no-insurance word only after it
\* is lowercased.
C7_Witness ==
    /\ "check_inputs" \in { trace[i] : i \in DOMAIN trace }
    /\ state.insurance_input = << " ", "U", "N", "K", "N", "O", "W", "N", " " >>
    /\ state.has_insurance = Some(FALSE)

NodesRun == { trace[i] : i \in DOMAIN trace }

\* The order build_graph wires for a run, by the value of has_insurance.
ExpectedOrder(has_insurance) ==
    << "check_inputs", IF has_insurance THEN "extract_plan" ELSE "use_defaults",
       "assess_severity", "find_hospitals", "check_network", "estimate_cost",
       "find_alternatives", "generate_answer" >>

IsPrefix(a, b) == Len(a) <= Len(b) /\ SubSeq(b, 1, Len(a)) = a

\* C8: in every run check-inputs runs first, then exactly one of extract-plan
\* (has_insurance true) and use-defaults (has_insurance false), then every
\* later node exactly once in the fixed order, ending with generate-answer:
\* the nodes run so far are a prefix of that order, and a run that has
\* returned has run all of it.
C8_FixedNodeOrder ==
    /\ trace # << >> => trace[1] = "check_inputs"
    /\ state.has_insurance # None =>
          /\ IsPrefix(trace, ExpectedOrder(state.has_insurance[1]))
          /\ ppc = "returned" => trace = ExpectedOrder(state.has_insurance[1])

\* The nodes that have run are, in their order, the first nodes of the order
\* build_graph wires: no node runs twice, out of order, or on the branch not
\* selected.
C8_OrderIsPrefix ==
    /\ trace # << >> => trace[1] = "check_inputs"
    /\ state.has_insurance # None =>
          IsPrefix(trace, ExpectedOrder(state.has_insurance[1]))

\* The run has returned an answer that is not run_agent's error answer.
ReturnedAnswer == ppc = "returned" /\ "error" \notin DOMAIN result[1]

\* C9: when a run has returned without a run-level failure, used_defaults of
\* the answer is true exactly when use-defaults ran (has_insurance false) and
\* false exactly when extract-plan ran; "Humana Gold Plus HMO" selects
\* extract-plan and gives used_defaults false.
C9_UsedDefaultsIsBranch ==
    ReturnedAnswer =>
        /\ result[1].used_defaults = TRUE <=>
              ("use_defaults" \in NodesRun /\ state.has_insurance = Some(FALSE))
        /\ result[1].used_defaults = FALSE <=> "extract_plan" \in NodesRun
        /\ state.insurance_input = << "H", "u", "m", "a", "n", "a", " ", "G", "o", "l", "d", " ", "P", "l", "u", "s", " ", "H", "M", "O" >> =>
              ("extract_plan" \in NodesRun /\ result[1].used_defaults = FALSE)

\* C9 witness: a run on "Humana Gold Plus HMO" returned the answer of an oracle
\* that wrote used_defaults true itself.
C9_Witness ==
    /\ ReturnedAnswer
    /\ state.insurance_input = << "H", "u", "m", "a", "n", "a", " ", "G", "o", "l", "d", " ", "P", "l", "u", "s", " ", "H", "M", "O" >>
    /\ result[1].prose = "generated"
    /\ result[1].used_defaults = FALSE
    /\ \E i \in DOMAIN dir_queries : dir_queries[i].taxonomy_description = "hospital"

C11_KneeMriIsOrthopedics ==
    (state.care_needed = << "k", "n", "e", "e", " ", "M", "R", "I" >> /\ dir_queries # << >>)
        => dir_queries[1].taxonomy_description = "orthopedics"

-----------------------------------------------------------------------------
(* Properties of single functions *)

\* The entries of a list that carry the cost c, in their order.
WithCost(list, c) == SelectSeq(list, LAMBDA x : x.estimated_cost = c)

\* a may stand before b: positive costs ascending, a cost of zero last
MayPrecede(a, b) ==
    \/ b.estimated_cost = 0
    \/ a.estimated_cost > 0 /\ a.estimated_cost <= b.estimated_cost

\* C12: the sorted provider list has the entries of the list sorted, ascending
\* by estimated cost with every entry of cost zero after every entry of
\* positive cost, and entries of equal cost in their previous order; costs
\* [0, 300, 150] become [150, 300, 0].
C12_SortedZeroLast ==
    (call # None /\ call[1].fn = "sort" /\ ret # None) =>
        LET in  == call[1].cost_results
            out == ret[1]
        IN  /\ Len(out) = Len(in)
            /\ \A c \in SortCosts : WithCost(out, c) = WithCost(in, c)
            /\ \A i \in DOMAIN out : \A j \in DOMAIN out :
                  i < j => MayPrecede(out[i], out[j])
            /\ [i \in DOMAIN in |-> in[i].estimated_cost] = << 0, 300, 150 >>
                  => [i \in DOMAIN out |-> out[i].estimated_cost] = << 150, 300, 0 >>

\* With every cost below 9999 the sort is as C12 says.
C12_HoldsBelow9999 ==
    (call # None /\ call[1].fn = "sort"
        /\ \A i \in DOMAIN call[1].cost_results :
              call[1].cost_results[i].estimated_cost < 9999)
        => C12_SortedZeroLast

\* The multiplier of C13, in tenths.
RefMultiplier(severity) ==
    IF severity = "mild" THEN 7
    ELSE IF severity = "severe" THEN 16
    ELSE IF severity = "critical" THEN 25
    ELSE 10

\* A baseline plan: the name says medicare and does not say advantage.
IsBaselinePlan(plan) ==
    /\ Contains(Lower(plan), << "m", "e", "d", "i", "c", "a", "r", "e" >>)
    /\ ~Contains(Lower(plan), << "a", "d", "v", "a", "n", "t", "a", "g", "e" >>)

\* The reference rule of C13, with the divisions multiplied out: cents is
\* the patient cost in hundredths of a dollar for the adjusted cost
\* tenths / 10 dollars.
IsReferenceCost(cents, tenths, baseline, in_network) ==
    LET a == 10 * tenths
        d == 100 * 240
    IN  IF baseline /\ in_network
        THEN IF a <= d THEN cents = a ELSE 100 * cents = 100 * d + 20 * (a - d)
        ELSE IF baseline THEN 100 * cents = 35 * a
        ELSE IF in_network
        THEN 100 * cents = 25 * a + (IF tenths < 5000 THEN 100 * 100 * 40 ELSE 0)
        ELSE 100 * cents = 50 * a

\* C13: with the deductible not met, for every procedure, severity, plan and
\* network status, the patient cost estimate_cost computes is the reference
\* rule on adjusted = base x multiplier, and the alternative estimate is 65%
\* of the patient cost (65 ten-thousandths of a dollar for each cent of it).
C13_CostIsReferenceRule ==
    (call # None /\ call[1].fn = "estimate_cost" /\ ~call[1].deductible_met /\ ret # None) =>
        LET c == call[1]
            cent == DollarUnit \div 100
        IN  /\ ret[1].patient_cost % cent = 0
            /\ IsReferenceCost(ret[1].patient_cost \div cent,
                               BaseCost(c.procedure) * RefMultiplier(c.severity),
                               IsBaselinePlan(c.insurance_plan),
                               c.network_status = "in-network")
            /\ ret[1].alternative_cost % (cent \div 100) = 0
            /\ ret[1].alternative_cost \div (cent \div 100)
                  = 65 * (ret[1].patient_cost \div cent)

\* C13 witness: estimate_cost has answered for an x-ray, critical, in-network
\* on a plan that is not the baseline: the adjusted cost is exactly 500, no
\* copay is added, and the patient cost is 125.
C13_Witness ==
    /\ call # None /\ call[1].fn = "estimate_cost" /\ ret # None
    /\ call[1].procedure = << "x", "-", "r", "a", "y" >>
    /\ call[1].severity = "critical"
    /\ call[1].network_status = "in-network"
    /\ call[1].insurance_plan = << "H", "u", "m", "a", "n", "a", " ", "G", "o", "l", "d", " ", "P", "l", "u", "s", " ", "H", "M", "O" >>
    /\ ~call[1].deductible_met
    /\ ret[1].patient_cost = 125 * DollarUnit

-----------------------------------------------------------------------------
(* Properties of run_agent's failure handling *)

\* An exception left a node: run_agent has returned and no final answer was
\* put in the state.
RunFailed == ppc = "returned" /\ state.final_answer = None

\* C14: run_agent returns to its caller whatever happens in the nodes; when an
\* exception left a node the answer returned is the error answer (confidence
\* 0, no provider, the apology as spoken summary, used_defaults false); and
\* run_agent answers once: a result, once given, does not change.
C14_ErrorAnswerOnce ==
    /\ [](ppc = "returned" => result # None)
    /\ [](RunFailed =>
            /\ "error" \in DOMAIN result[1]
            /\ result[1].confidence = 0
            /\ result[1].hospitals = << >>
            /\ result[1].prose = "error summary"
            /\ result[1].used_defaults = FALSE)
    /\ [][result # None => result' = result]_vars

\* C14 witness: the synthesis oracle raised in generate_answer, the last node,
\* and run_agent returned the error answer.
C14_Witness ==
    /\ RunFailed
    /\ trace[Len(trace)] = "generate_answer"
    /\ result[1].confidence = 0

\* C15: a failing external call does not abort the run: every run that has
\* returned ran all the nodes of its order and returned an answer that is not
\* the run-level error answer.
C15_NodeFailuresAreSoft ==
    ppc = "returned" =>
        /\ trace = ExpectedOrder(state.has_insurance[1])
        /\ "error" \notin DOMAIN result[1]

-----------------------------------------------------------------------------
(* Properties of node_generate_answer *)

\* The fields C16 names beside the four of StructuredFields: the symptom
\* justification and the urgency.
SymptomFields == { "symptom_reason", "urgency" }

\* C16: the answer generate-answer puts in the state, from parsed JSON or from
\* the raw-text fallback, carries the provider list, the plan details, the
\* alternatives text and the default-plan flag of the state, and carries a
\* symptom justification and an urgency only as the state has them: no value
\* the oracle wrote for any of the six is in the answer.
C16_StructuredFromState ==
    state.final_answer # None =>
        LET answer == state.final_answer[1]
        IN  /\ answer.hospitals = state.cost_estimate[1].hospitals
            /\ answer.plan_details = state.plan_details[1]
            /\ answer.alternatives = state.alternatives[1]
            /\ answer.used_defaults = state.plan_details[1].is_default
            /\ \A f \in SymptomFields :
                  f \in DOMAIN answer => (f \in DOMAIN state /\ answer[f] = state[f])

\* The four fields node_generate_answer assigns are always the state's.
C16_FourFieldsFromState ==
    state.final_answer # None =>
        LET answer == state.final_answer[1]
        IN  /\ answer.hospitals = state.cost_estimate[1].hospitals
            /\ answer.plan_details = state.plan_details[1]
            /\ answer.alternatives = state.alternatives[1]
            /\ answer.used_defaults = state.plan_details[1].is_default

-----------------------------------------------------------------------------
(* Properties of the parsing of oracle responses *)

\* What the site named by the call makes of a response text.
SiteResult(fn, response) ==
    CASE fn = "parse_llm_json"       -> parse_llm_json(response)
      [] fn = "node_assess_severity" -> node_assess_severity_parse(response)
      [] fn = "node_generate_answer" -> node_generate_answer(StateBeforeAnswer, response)

ParsingSites == { "parse_llm_json", "node_assess_severity", "node_generate_answer" }

\* C17: at every site that parses an oracle response (scoring and rewriting
\* through parse_llm_json, severity assessment, answer generation), a JSON
\* value between code fences gives what the same value gives without them.
C17_FencesAreStripped ==
    (call # None /\ call[1].fn \in ParsingSites /\ ret # None) =>
        ret[1] = SiteResult(call[1].fn, Wrap("none", call[1].value))

\* At the sites of critique.py, scoring and rewriting, a fenced JSON value is
\* parsed to the value itself.
C17_CritiqueSitesStripFences ==
    (call # None /\ call[1].fn = "parse_llm_json" /\ ret # None) =>
        ret[1] = Some(call[1].value)

-----------------------------------------------------------------------------
(* Properties of requests served at the same time *)

\* The dicts a request holds or can reach through the dicts it holds.
Held(r) ==
    LET direct == { runs[r].plan, runs[r].answer, runs[r].current, runs[r].best } \ { 0 }
    IN  direct \cup { objs[a].plan_details : a \in { b \in direct : "plan_details" \in DOMAIN objs[b] } }

\* C18: two requests served at the same time are independent in every
\* interleaving: the answers of the two are different dicts, the only dict
\* both can reach is DEFAULT_PLAN, DEFAULT_PLAN never changes, and no step of
\* one request changes a dict the other holds.
C18_RunsAreIndependent ==
    /\ [](\A r \in Runs : \A q \in Runs \ { r } :
            /\ Held(r) \cap Held(q) \subseteq { DefaultPlanRef }
            /\ runs[r].answer # 0 => runs[r].answer # runs[q].answer)
    /\ [](objs[DefaultPlanRef] = DEFAULT_PLAN)
    /\ [][\A r \in Runs : runs'[r] # runs[r] =>
             \A q \in Runs \ { r } : \A a \in Held(q) : objs'[a] = objs[a]]_vars

\* C18 witness: both requests took the use-defaults branch, hold DEFAULT_PLAN
\* through their answers, and one has had its history attached while the
\* other is still in its critique loop.
C18_Witness ==
    /\ runs[1].plan = DefaultPlanRef /\ runs[2].plan = DefaultPlanRef
    /\ runs[1].pc = "save" /\ runs[2].pc = "critique"
    /\ "score_history" \in DOMAIN objs[runs[1].best]
    /\ runs[2].rewrites = 1
    /\ DefaultPlanRef \in Held(1) \cap Held(2)

-----------------------------------------------------------------------------
(* Properties of save_session *)

StoredHistory(table) ==
    IF SessionId \in DOMAIN table THEN table[SessionId].care_history ELSE << >>

NoDuplicates(s) == \A i, j \in DOMAIN s : s[i] = s[j] => i = j

\* A call of save_session has just returned True.
Saved == last_save' # last_save /\ last_save'[1].returned = Some(TRUE)

\* C19: the stored care_history has at most 10 entries and no duplicates; a
\* successful save of a care_needed that is not in the history appends it at
\* the end, dropping the oldest entry when there were 10, and a successful
\* save of a care_needed that is in the history leaves the history unchanged.
C19_HistoryGrowsByAppend ==
    /\ [](Len(StoredHistory(sessions)) <= HistoryLimit /\ NoDuplicates(StoredHistory(sessions)))
    /\ [][Saved =>
            LET before == StoredHistory(sessions)
                care_needed == last_save'[1].care_needed
            IN  StoredHistory(sessions') =
                    IF care_needed \in RangeOf(before) THEN before
                    ELSE LastN(Append(before, care_needed), HistoryLimit)]_vars

\* C19, the part that holds in every case: at most 10 entries, no duplicates
\* and never an empty text.
C19_AtMostTenNoDuplicates ==
    /\ Len(StoredHistory(sessions)) <= HistoryLimit
    /\ NoDuplicates(StoredHistory(sessions))
    /\ NoCare \notin RangeOf(StoredHistory(sessions))

\* C19, the saves that do as claimed: with a text that is not empty and a
\* query of load_session that does not raise.
C19_AppendWhenLoaded ==
    [][(SaveSession /\ last_save'[1].care_needed # NoCare) =>
            LET before == StoredHistory(sessions)
                care_needed == last_save'[1].care_needed
            IN  StoredHistory(sessions') =
                    IF care_needed \in RangeOf(before) THEN before
                    ELSE LastN(Append(before, care_needed), HistoryLimit)]_vars

-----------------------------------------------------------------------------
(* Properties of score_answer *)

ScoreFields == { "completeness", "accuracy", "clarity", "safety", "composite" }

\* C20: every sub-score and every composite of every ScoreRecord is an
\* integer from 0 to 100, whatever the oracle returned.
C20_ScoresWithinRange ==
    \A i \in DOMAIN score_history : \A f \in ScoreFields : score_history[i][f] \in 0..100

\* C20, the part that holds: every record is made of integers, and its
\* composite lies between the least and the greatest of its four sub-scores.
C20_CompositeWithinSubScores ==
    \A i \in DOMAIN score_history :
        LET r == score_history[i]
            subs == { r.completeness, r.accuracy, r.clarity, r.safety }
        IN  /\ \A f \in ScoreFields : r[f] \in Int
            /\ \E lo, hi \in subs : lo <= r.composite /\ r.composite <= hi

-----------------------------------------------------------------------------
(* Properties of the loop when a call of the oracle fails *)

NeutralRecord(i) ==
    [iteration |-> i, completeness |-> 70, accuracy |-> 70, clarity |-> 70,
     safety |-> 70, composite |-> 70]

\* C21: a scoring call that fails at iteration i adds the record of 70 on the
\* four dimensions with composite 70 and needs_rewrite true; the loop does not
\* stop at i when i < 3, but asks for a rewrite, after which iteration i + 1
\* is scored; and the answer returned carries the whole history, one record
\* for every iteration.
C21_ScoringFailureGoesOn ==
    /\ [][ScoreFail =>
            /\ score_history' = Append(score_history, NeutralRecord(iteration))
            /\ scores'[1].needs_rewrite
            /\ iteration < 3 => cpc' = "rewrite"]_vars
    /\ [][cpc = "rewrite" => cpc' = "score" /\ iteration' = iteration + 1]_vars
    /\ [](cpc = "done" =>
            /\ Returned.score_history = score_history
            /\ Returned.iterations = iteration
            /\ \A i \in 1..iteration : score_history[i].iteration = i)

\* C21 witness: a run that has returned after three iterations whose second
\* record is the one of a failed scoring call, and whose candidate was
\* rewritten after it.
C21_Witness ==
    /\ cpc = "done"
    /\ Len(score_history) = 3
    /\ score_history[2] = NeutralRecord(2)
    /\ score_history[1].composite < 0
    /\ candidates[3] # candidates[2]
    /\ Returned.score_history = score_history

\* C22: a rewrite call that fails after iteration i leaves the candidate, the
\* best candidate and the best score as they were, and the loop goes on to
\* iteration i + 1, where the candidate scored is the one scored at i.
C22_RewriteFailureKeepsCandidate ==
    /\ [][RewriteFail =>
            /\ current_answer' = current_answer
            /\ heap' = heap
            /\ best_answer' = best_answer
            /\ best_score' = best_score
            /\ iteration' = iteration + 1
            /\ cpc' = "score"
            /\ candidates[iteration] = current_answer]_vars
    /\ [][(cpc = "score" /\ cpc' # "score") =>
            /\ candidates' = Append(candidates, current_answer)
            /\ Len(candidates') = iteration]_vars

\* C22 witness: the second candidate was a rewrite, the rewrite after
\* iteration 2 failed, and iteration 3 scored the second candidate again; the
\* best candidate is still the one of iteration 1.
C22_Witness ==
    /\ Len(candidates) = 3
    /\ rewrite_calls = 2
    /\ candidates[2] # candidates[1]
    /\ candidates[3] = candidates[2]
    /\ best_answer = candidates[1]
    /\ best_score > 0

-----------------------------------------------------------------------------
(* Properties of the provider nodes *)

Min(a, b) == IF a < b THEN a ELSE b

CheckedNetwork == state.network_results # None

\* C23: when find-providers gave n providers, check-network gives one record
\* for each of the first min(4, n), in the same order, so that there is a
\* record whenever there is a provider.
C23_OneRecordPerProvider ==
    CheckedNetwork =>
        LET hospitals == state.hospitals[1]
            network_results == state.network_results[1]
        IN  /\ Len(network_results) = Min(4, Len(hospitals))
            /\ \A i \in DOMAIN network_results :
                  network_results[i].name = hospitals[i].hospital
            /\ hospitals # << >> => network_results # << >>

\* C23, what the code does: the providers carry their name under "hospital",
\* check-network reads "name", and no record is ever made.
C23_NoRecordIsMade ==
    CheckedNetwork =>
        /\ state.network_results[1] = << >>
        /\ \A i \in DOMAIN state.hospitals[1] : "name" \notin DOMAIN state.hospitals[1][i]

FoundHospitals == \E i \in DOMAIN trace : trace[i] = "find_hospitals"

\* C24: find-providers makes one or two directory queries in a run; the
\* second asks for "hospital" and is made only after a first query that
\* succeeded without a result; the node always ends with a provider list,
\* which is empty when its last query raised or had no result.
C24_AtMostTwoQueries ==
    /\ Len(dir_queries) <= 2
    /\ Len(dir_queries) = 2 =>
          /\ dir_queries[2].taxonomy_description = "hospital"
          /\ dir_queries[1].outcome = "no results"
    /\ FoundHospitals <=> dir_queries # << >>
    /\ FoundHospitals =>
          /\ state.hospitals # None
          /\ dir_queries[Len(dir_queries)].outcome # "results" => state.hospitals[1] = << >>
          /\ dir_queries[1].outcome = "no results" => Len(dir_queries) = 2
          /\ ppc = "returned" => (state.severity # None /\ trace[Len(trace)] # "find_hospitals")

\* C24 witness: the first query had no result, the query for "hospital"
\* raised, and the run went on with an empty provider list.
C24_Witness ==
    /\ Len(dir_queries) = 2
    /\ dir_queries[1].taxonomy_description = "gastroenterology"
    /\ dir_queries[2].outcome = "raised"
    /\ state.hospitals = Some(<< >>)
    /\ ppc = "check_network"

-----------------------------------------------------------------------------
(* Properties of node_assess_severity *)

SeverityValues == { "mild", "moderate", "severe", "critical" }

\* C25: once assess-severity has run, the severity of the state is mild,
\* moderate, severe or critical, and it is moderate when no medical history
\* was given.
C25_SeverityIsOneOfFour ==
    state.severity # None =>
        /\ state.severity[1] \in SeverityValues
        /\ Strip(state.medical_history) = << >> => state.severity[1] = "moderate"

\* C25, what holds of the node: without history the severity is moderate, and
\* with history it is moderate or a value the oracle gave, one of the four or
\* not.
C25_SeverityIsModerateOrOracle ==
    state.severity # None =>
        /\ Strip(state.medical_history) = << >> => state.severity[1] = "moderate"
        /\ \/ state.severity[1] = "moderate"
           \/ \E j \in SeverityJsons :
                 /\ j.object
                 /\ "severity" \in DOMAIN j.value
                 /\ j.value.severity = state.severity[1]

\* C25, the parsing alone: the severity is the oracle's value when the
\* response is the bare JSON of an object with a severity, and moderate in
\* every other case.
C25_ParseKeepsOracleValue ==
    (call # None /\ ret # None /\ call[1].fn = "node_assess_severity") =>
        ret[1].severity[1] =
            IF call[1].style = "none" /\ call[1].value.object
                  /\ "severity" \in DOMAIN call[1].value.value
            THEN call[1].value.value.severity
            ELSE "moderate"

-----------------------------------------------------------------------------
(* Properties of the state record *)

InputFields ==
    { "insurance_input", "input_type", "care_needed", "zip_code", "file_path",
      "medical_history" }

ProgressiveFields ==
    { "has_insurance", "plan_details", "severity", "hospitals", "network_results",
      "cost_estimate", "alternatives", "final_answer" }

-----------------------------------------------------------------------------
(* Properties of the baseline rules of estimate_cost *)

CostReturned == call # None /\ call[1].fn = "estimate_cost" /\ ret # None

\* The patient cost of the call made again with another network status.
CostWithStatus(c, network_status) ==
    PatientCost(c.procedure, c.insurance_plan, network_status, c.severity, c.deductible_met)

\* C27: under baseline coverage, for every procedure and severity, the
\* patient cost for a provider that is not in-network is at least the patient
\* cost for an in-network provider.
C27_NotInNetworkCostsMore ==
    (CostReturned /\ IsBaselinePlan(call[1].insurance_plan)
        /\ call[1].network_status = "in-network") =>
            \A n \in NetworkStatuses \ { "in-network" } :
                CostWithStatus(call[1], n) >= ret[1].patient_cost

\* C27, where it holds: with the deductible met, and with the deductible not
\* met from an adjusted cost of 1280 dollars on.
C27_HoldsAboveDeductible ==
    (CostReturned /\ IsBaselinePlan(call[1].insurance_plan)
        /\ call[1].network_status = "in-network"
        /\ \/ call[1].deductible_met
           \/ BaseCost(call[1].procedure) * RefMultiplier(call[1].severity) >= 12800) =>
            \A n \in NetworkStatuses \ { "in-network" } :
                CostWithStatus(call[1], n) >= ret[1].patient_cost

\* C27, where it fails: with the deductible not met and an adjusted cost
\* below 1280 dollars the in-network cost is the greater one.
C27_InNetworkCostsMoreBelow1280 ==
    (CostReturned /\ IsBaselinePlan(call[1].insurance_plan)
        /\ call[1].network_status = "in-network"
        /\ ~call[1].deductible_met
        /\ BaseCost(call[1].procedure) * RefMultiplier(call[1].severity) < 12800) =>
            \A n \in NetworkStatuses \ { "in-network" } :
                CostWithStatus(call[1], n) < ret[1].patient_cost

-----------------------------------------------------------------------------
(* Properties of the costs on the use-defaults branch *)

\* 35% of the adjusted cost, in whole dollars as the cost is printed and read.
ThirtyFivePercent(care_needed, severity) ==
    PyRound(BaseCost(care_needed) * RefMultiplier(severity) * 35, 1000)

\* C28: in a run on the use-defaults branch, every provider that
\* check-network looks at has a cost attached, which is 35% of the adjusted
\* base cost, under a status that is not in-network.
C28_DefaultBranchCostIs35Percent ==
    ("use_defaults" \in NodesRun /\ state.cost_estimate # None) =>
        LET providers == FirstFour(state.hospitals[1])
            costs     == state.cost_estimate[1].hospitals
        IN  \A i \in DOMAIN providers :
               \E j \in DOMAIN costs :
                  /\ costs[j].hospital = providers[i].hospital
                  /\ costs[j].network_status # "in-network"
                  /\ costs[j].estimated_cost =
                        ThirtyFivePercent(state.care_needed, state.severity[1])

\* C28, what the cost model does for the default plan: the status that
\* check-network gives a provider under a default plan is accepts-medicare,
\* and estimate_cost called with the default plan's name and that status
\* gives 35% of the adjusted cost.
C28_AcceptsMedicareIs35Percent ==
    (CostReturned /\ call[1].insurance_plan = DEFAULT_PLAN.plan_name
        /\ call[1].network_status =
              NetworkLoop(<< [name |-> "Mercy Hospital"] >>, TRUE, << >>)[1].status) =>
            /\ call[1].network_status = "accepts-medicare"
            /\ FormatDollars(ret[1].patient_cost) =
                  ThirtyFivePercent(call[1].procedure, call[1].severity)

\* C28, what a run does: no provider of a run on the use-defaults branch has
\* a cost attached.
C28_NoCostIsAttached ==
    ("use_defaults" \in NodesRun /\ state.cost_estimate # None) =>
        state.cost_estimate[1].hospitals = << >>

-----------------------------------------------------------------------------
(* Properties of the estimate endpoint *)

\* C29: the has_insurance flag the endpoint hands to run_critique_loop is the
\* has_insurance that check-inputs decided in the run of the same request.
C29_SameHasInsurance ==
    state.has_insurance # None =>
        CritiqueHasInsurance(state.insurance_input) = state.has_insurance[1]

\* C29, where the two agree: on the empty text, and on every text for which
\* check-inputs decided that there is insurance.
C29_AgreeOnEmptyAndMeaningful ==
    (state.has_insurance # None
        /\ (state.insurance_input = << >> \/ state.has_insurance[1])) =>
            CritiqueHasInsurance(state.insurance_input) = state.has_insurance[1]

-----------------------------------------------------------------------------
(* Properties of calls of save_session under way at the same time *)

BothSaved == \A c \in Callers : saving[c].returned = Some(TRUE)

\* C30: when two calls of save_session for one session_id with different
\* care_needed have both returned True, in whatever order their steps were
\* taken, the stored care_history holds both values.
C30_NoUpdateIsLost ==
    BothSaved =>
        \A c \in Callers : saving[c].care_needed \in RangeOf(StoredHistory(sessions))

\* C30, where it holds: when neither call loaded the row between the load
\* and the upsert of the other, no query of load_session raised, and the
\* history has not reached the 10 entries from which the oldest is dropped.
C30_BothKeptWithoutOverlap ==
    (BothSaved /\ Len(StoredHistory(sessions)) < HistoryLimit
        /\ \A c \in Callers : ~saving[c].stale) =>
        \A c \in Callers : saving[c].care_needed \in RangeOf(StoredHistory(sessions))

=============================================================================
